---- MODULE Spec2Model ----
(***************************************************************************)
(* Model of the svc-doc-generator backend: the user store and its service, *)
(* the login / registration / user endpoints, the request schemas, the     *)
(* response envelope, and the GitHub proxy service with its handlers.      *)
(*                                                                         *)
(* Conventions.  A JSON object or a Python dict is a function whose DOMAIN *)
(* is the set of keys that are present.  An optional value is a sequence   *)
(* of length 0 (None) or 1.  An e-mail address is a sequence of one-char   *)
(* strings so that lower-casing and the format regex are computed; other   *)
(* strings are TLA+ strings.  A message is a record [text, detail]: text   *)
(* is the fixed part of the Python string and detail the dict that an      *)
(* f-string embeds in it (empty otherwise).                                *)
(***************************************************************************)
EXTENDS Integers, Sequences, FiniteSets, TLC

VARIABLES
    users,      \* the users table: a sequence of rows, the id is the index
    req,        \* the last request: its handler and the input it carried
    svc,        \* the last service call: its operation and outcome
    resp,       \* the last HTTP response: handler, status, body
    outbound    \* whether the last request issued an outbound HTTP call

vars == <<users, req, svc, resp, outbound>>

(***************************************************************************)
(* Strings                                                                 *)
(***************************************************************************)
LowerLetters == {"a", "b", "i", "o", "x"}
UpperLetters == {"A", "B"}
Letters == LowerLetters \cup UpperLetters

\* str.lower() on one character
LowerChar(c) ==
    CASE c = "A" -> "a"
      [] c = "B" -> "b"
      [] OTHER -> c

\* str.lower()
Lower(s) == [i \in 1..Len(s) |-> LowerChar(s[i])]

\* [a-zA-Z0-9._%+-] and [a-zA-Z0-9.-] of the e-mail pattern
LocalChars == Letters \cup {".", "_", "%", "+", "-"}
DomainChars == Letters \cup {".", "-"}

\* re.match(r'^[a-zA-Z0-9._%+-]+@[a-zA-Z0-9.-]+\.[a-zA-Z]{2,}$', email)
MatchEmail(s) ==
    \E at \in 2..Len(s), dot \in 1..Len(s) :
        /\ s[at] = "@"
        /\ \A i \in 1..(at - 1) : s[i] \in LocalChars
        /\ dot > at + 1
        /\ s[dot] = "."
        /\ \A i \in (at + 1)..(dot - 1) : s[i] \in DomainChars
        /\ Len(s) - dot >= 2
        /\ \A i \in (dot + 1)..Len(s) : s[i] \in Letters

EmailA == <<"a", "@", "x", ".", "i", "o">>
EmailAUpper == <<"A", "@", "x", ".", "i", "o">>
EmailB == <<"b", "@", "x", ".", "i", "o">>
EmailBad == <<"a", "@", "x">>
Emails == {EmailA, EmailAUpper, EmailB, EmailBad}

Msg(text) == [text |-> text, detail |-> <<>>]
MsgWith(text, detail) == [text |-> text, detail |-> detail]

\* dict.get(key): None when the key is absent
Get(d, k) == IF k \in DOMAIN d THEN <<d[k]>> ELSE <<>>

\* the dict d without the keys in ks (dict.pop)
Without(d, ks) == [k \in DOMAIN d \ ks |-> d[k]]

\* the dict d restricted to the keys in ks
Only(d, ks) == [k \in DOMAIN d \cap ks |-> d[k]]

\* dict.update: the keys of e override those of d
Merge(d, e) == [k \in DOMAIN d \cup DOMAIN e |-> IF k \in DOMAIN e THEN e[k] ELSE d[k]]

(***************************************************************************)
(* The User model                                                          *)
(***************************************************************************)
\* the mapped columns a keyword argument can set (hasattr(self, key))
UserColumns == {"email", "first_name", "last_name", "role", "is_active"}
NotNullColumns == {"email", "password_hash", "first_name", "last_name"}
AllowedRoles == {"user", "admin", "moderator"}

\* werkzeug generate_password_hash / check_password_hash: a hash verifies
\* exactly the password it was made from
PasswordHash(password) == <<"pbkdf2", password>>
CheckPassword(row, password) == row.password_hash[2] = password

\* User.find_by_email: the id of the row whose email is email.lower(), 0 for None
FindByEmail(store, email) ==
    IF \E i \in 1..Len(store) : store[i].email = Lower(email)
    THEN CHOOSE i \in 1..Len(store) :
            /\ store[i].email = Lower(email)
            /\ \A j \in 1..(i - 1) : store[j].email # Lower(email)
    ELSE 0

\* User.find_by_id: query.get(user_id), 0 for None
FindById(store, id) == IF id \in 1..Len(store) THEN id ELSE 0

\* User.__init__(**kwargs) with the @validates hooks: the attributes set, or
\* the ValueError a validator raises.  Keys that are not attributes of the
\* mapped class (name, github_username, ...) are skipped.  The keyword
\* arguments are visited in field order, email before role.
UserInit(d) ==
    IF "email" \in DOMAIN d /\ ~MatchEmail(d.email)
    THEN [exc |-> "ValueError", message |-> Msg("Invalid email format"), obj |-> <<>>]
    ELSE IF "role" \in DOMAIN d /\ d.role \notin AllowedRoles
    THEN [exc |-> "ValueError", message |-> Msg("Role must be one of: user, admin, moderator"), obj |-> <<>>]
    ELSE [exc |-> "", message |-> Msg(""),
          obj |-> [k \in (DOMAIN d \cap UserColumns)
                         \cup (IF "password" \in DOMAIN d THEN {"password_hash"} ELSE {}) |->
                     CASE k = "email" -> Lower(d.email)
                       [] k = "password_hash" -> PasswordHash(d.password)
                       [] OTHER -> d[k]]]

\* the row INSERTed for a new object: column defaults fill role, is_active
NewRow(obj) ==
    [email |-> obj.email,
     password_hash |-> obj.password_hash,
     first_name |-> obj.first_name,
     last_name |-> obj.last_name,
     role |-> IF "role" \in DOMAIN obj THEN obj.role ELSE "user",
     is_active |-> IF "is_active" \in DOMAIN obj THEN obj.is_active ELSE TRUE,
     last_login |-> FALSE]

\* save on a table whose email column has no UNIQUE constraint
SaveUnconstrained(store, obj) ==
    IF ~(NotNullColumns \subseteq DOMAIN obj)
    THEN [exc |-> "IntegrityError", message |-> Msg("NOT NULL constraint failed"),
          store |-> store, id |-> 0]
    ELSE [exc |-> "", message |-> Msg(""),
          store |-> Append(store, NewRow(obj)), id |-> Len(store) + 1]

\* BaseModel.save: session.add + commit; the NOT NULL and UNIQUE constraints
\* of the table reject the INSERT with an IntegrityError
Save(store, obj) ==
    IF ~(NotNullColumns \subseteq DOMAIN obj)
    THEN [exc |-> "IntegrityError", message |-> Msg("NOT NULL constraint failed"),
          store |-> store, id |-> 0]
    ELSE IF \E i \in 1..Len(store) : store[i].email = obj.email
    THEN [exc |-> "IntegrityError", message |-> Msg("UNIQUE constraint failed"),
          store |-> store, id |-> 0]
    ELSE [exc |-> "", message |-> Msg(""),
          store |-> Append(store, NewRow(obj)), id |-> Len(store) + 1]

\* to_dict(include_sensitive=True): password_hash is kept
ToDictSensitive(store, id) ==
    [id |-> id,
     email |-> store[id].email,
     password_hash |-> store[id].password_hash,
     first_name |-> store[id].first_name,
     last_name |-> store[id].last_name,
     role |-> store[id].role,
     is_active |-> store[id].is_active,
     last_login |-> store[id].last_login,
     full_name |-> <<store[id].first_name, " ", store[id].last_name>>,
     is_admin |-> store[id].role = "admin"]

\* User.to_dict(): every column but password_hash, plus full_name, is_admin
ToDict(store, id) ==
    [id |-> id,
     email |-> store[id].email,
     first_name |-> store[id].first_name,
     last_name |-> store[id].last_name,
     role |-> store[id].role,
     is_active |-> store[id].is_active,
     last_login |-> store[id].last_login,
     full_name |-> <<store[id].first_name, " ", store[id].last_name>>,
     is_admin |-> store[id].role = "admin"]

(***************************************************************************)
(* UserService                                                             *)
(***************************************************************************)
\* create_user without the existence check
CreateUserUnchecked(store, d) ==
    IF "email" \notin DOMAIN d
    THEN [exc |-> "KeyError", message |-> Msg("email"), store |-> store, id |-> 0]
    ELSE LET init == UserInit(d) IN
         IF init.exc # ""
         THEN [exc |-> init.exc, message |-> init.message, store |-> store, id |-> 0]
         ELSE Save(store, init.obj)

\* UserService.create_user
CreateUser(store, d) ==
    IF "email" \notin DOMAIN d
    THEN [exc |-> "KeyError", message |-> Msg("email"), store |-> store, id |-> 0]
    ELSE IF FindByEmail(store, d.email) # 0
    THEN [exc |-> "ValueError", message |-> Msg("User with this email already exists"),
          store |-> store, id |-> 0]
    ELSE LET init == UserInit(d) IN
         IF init.exc # ""
         THEN [exc |-> init.exc, message |-> init.message, store |-> store, id |-> 0]
         ELSE Save(store, init.obj)

\* UserService.authenticate_user (get_user_by_email, is_active,
\* check_password, set_last_login)
AuthenticateUser(store, email, password) ==
    LET id == FindByEmail(store, email) IN
    IF id = 0
    THEN [exc |-> "ValueError", message |-> Msg("User not found"), store |-> store, id |-> 0]
    ELSE IF ~store[id].is_active
    THEN [exc |-> "ValueError", message |-> Msg("User account is inactive"), store |-> store, id |-> 0]
    ELSE IF ~CheckPassword(store[id], password)
    THEN [exc |-> "ValueError", message |-> Msg("Invalid credentials"), store |-> store, id |-> 0]
    ELSE [exc |-> "", message |-> Msg(""),
          store |-> [store EXCEPT ![id].last_login = TRUE], id |-> id]

(***************************************************************************)
(* Request schemas (marshmallow): load() checks every declared field and   *)
(* every key of the input, and raises one ValidationError whose messages   *)
(* dict has an entry for each offending field.                             *)
(***************************************************************************)
MissingData == "Missing data for required field."
UnknownField == "Unknown field."

UserSchemaFields == {"email", "password", "first_name", "last_name", "role", "is_active"}
UserSchemaRequired == {"email", "password", "first_name", "last_name"}

\* the error of one field of UserSchema, "" when the field is accepted
UserSchemaFieldError(p, f) ==
    IF f \notin UserSchemaFields THEN UnknownField
    ELSE IF f \notin DOMAIN p
    THEN (IF f \in UserSchemaRequired THEN MissingData ELSE "")
    ELSE CASE f = "email" ->
                IF ~MatchEmail(p[f]) THEN "Not a valid email address."
                ELSE IF Len(p[f]) > 120 THEN "Longer than maximum length 120."
                ELSE ""
           [] f = "password" ->
                IF Len(p[f]) < 6 THEN "Shorter than minimum length 6." ELSE ""
           [] f \in {"first_name", "last_name"} ->
                IF Len(p[f]) > 50 THEN "Longer than maximum length 50." ELSE ""
           [] f = "role" ->
                IF p[f] \notin {"user", "admin", "moderator"}
                THEN "Must be one of: user, admin, moderator." ELSE ""
           [] OTHER -> ""

\* a validator that stops at the first offending field
UserSchemaFirstError(p) ==
    LET bad == {f \in UserSchemaFields \cup DOMAIN p : UserSchemaFieldError(p, f) # ""}
    IN  [f \in (IF bad = {} THEN {} ELSE {CHOOSE g \in bad : TRUE}) |->
            UserSchemaFieldError(p, f)]

\* ValidationError.messages of UserSchema().load(p); empty when p loads
UserSchemaErrors(p) ==
    LET bad == {f \in UserSchemaFields \cup DOMAIN p : UserSchemaFieldError(p, f) # ""}
    IN  [f \in bad |-> UserSchemaFieldError(p, f)]

\* the dict UserSchema().load(p) returns: declared fields, defaults filled
UserSchemaLoad(p) ==
    Merge([role |-> "user", is_active |-> TRUE], Only(p, UserSchemaFields))

UserLoginSchemaFields == {"email", "password"}

\* the error of one field of UserLoginSchema
UserLoginSchemaFieldError(p, f) ==
    IF f \notin UserLoginSchemaFields THEN UnknownField
    ELSE IF f \notin DOMAIN p THEN MissingData
    ELSE IF f = "email" /\ ~MatchEmail(p[f]) THEN "Not a valid email address."
    ELSE ""

\* ValidationError.messages of UserLoginSchema().load(p)
UserLoginSchemaErrors(p) ==
    LET bad == {f \in UserLoginSchemaFields \cup DOMAIN p : UserLoginSchemaFieldError(p, f) # ""}
    IN  [f \in bad |-> UserLoginSchemaFieldError(p, f)]

(***************************************************************************)
(* BaseController: the response envelope                                   *)
(***************************************************************************)
\* BaseController.success_response; data is an optional value
SuccessResponse(data, message, status_code) ==
    [status |-> status_code,
     body |-> IF data # <<>>
              THEN [success |-> TRUE, message |-> message, data |-> data[1]]
              ELSE [success |-> TRUE, message |-> message]]

\* BaseController.error_response; errors is a dict, falsy when empty
ErrorResponse(message, status_code, errors) ==
    [status |-> status_code,
     body |-> IF DOMAIN errors # {}
              THEN [success |-> FALSE, message |-> message, errors |-> errors]
              ELSE [success |-> FALSE, message |-> message]]

\* the response of a handler, tagged with the handler that produced it
From(handler, r) == [handler |-> handler, status |-> r.status, body |-> r.body]

\* the record kept of a service call and of a request
Called(op, r) == [op |-> op, exc |-> r.exc, message |-> r.message, id |-> r.id]
NoCall == [op |-> "none", exc |-> "", message |-> Msg(""), id |-> 0]
NoResponse == [handler |-> "none", status |-> 0, body |-> [success |-> TRUE, message |-> Msg("")]]
NoRequest == [handler |-> "none", body |-> <<>>]
Request(handler, p) == [handler |-> handler, body |-> p]

(***************************************************************************)
(* Endpoint handlers of the user store.  Each operator gives the outcome   *)
(* of the whole handler on a store and a JSON body: the store afterwards,  *)
(* the service call made (if any) and the response.                        *)
(***************************************************************************)
Outcome(store, call, response, out) ==
    [store |-> store, svc |-> call, resp |-> response, outbound |-> out]

\* BaseController.validate_json: the ValidationError becomes a ValueError
\* whose text embeds the messages dict
ValidationMessage(errors) == MsgWith("Validation error: ", errors)

\* JWT tokens: create_access_token / create_refresh_token(identity=user.id)
AccessToken(id) == <<"access", id>>
RefreshToken(id) == <<"refresh", id>>

\* login after validation: the tokens and the user, or 401 with the text
\* of the ValueError
Authenticated(r) ==
    IF r.exc = "ValueError"
    THEN Outcome(r.store, Called("authenticate_user", r),
                 ErrorResponse(r.message, 401, <<>>), FALSE)
    ELSE Outcome(r.store, Called("authenticate_user", r),
                 SuccessResponse(<<[user |-> ToDict(r.store, r.id),
                                    access_token |-> AccessToken(r.id),
                                    refresh_token |-> RefreshToken(r.id)]>>,
                                 Msg("Login successful"), 200), FALSE)

\* AuthController.login
LoginHandler(store, p) ==
    IF DOMAIN UserLoginSchemaErrors(p) # {}
    THEN Outcome(store, NoCall, ErrorResponse(ValidationMessage(UserLoginSchemaErrors(p)), 401, <<>>), FALSE)
    ELSE Authenticated(AuthenticateUser(store, p.email, p.password))

\* UserSchema().dump(user): the declared fields that are not load_only
UserSchemaDump(store, id) == ToDict(store, id)

\* the tail shared by register and create_user: create_user and the mapping
\* of its exceptions (ValueError -> 400, any other -> 500)
Created(r, created, failed) ==
    IF r.exc = ""
    THEN Outcome(r.store, Called("create_user", r),
                 SuccessResponse(<<UserSchemaDump(r.store, r.id)>>, Msg(created), 201), FALSE)
    ELSE IF r.exc = "ValueError"
    THEN Outcome(r.store, Called("create_user", r), ErrorResponse(r.message, 400, <<>>), FALSE)
    ELSE Outcome(r.store, Called("create_user", r), ErrorResponse(Msg(failed), 500, <<>>), FALSE)

CreateAndRespond(store, data, created, failed) ==
    Created(CreateUser(store, data), created, failed)

\* register after the confirmPassword check: schema validation, the GitHub
\* branch, create_user
Validated(store, json_data, errors) ==
    IF DOMAIN errors # {}
    THEN Outcome(store, NoCall, ErrorResponse(ValidationMessage(errors), 400, <<>>), FALSE)
    ELSE IF "github_username" \in DOMAIN UserSchemaLoad(json_data)
    THEN Outcome(store, NoCall, ErrorResponse(Msg("Registration failed"), 500, <<>>), FALSE)
    ELSE CreateAndRespond(store, UserSchemaLoad(json_data),
                          "Registration successful", "Registration failed")

\* register with the confirmPassword comparison left out
RegisterHandlerUnconfirmed(store, p) ==
    IF DOMAIN p = {}
    THEN Outcome(store, NoCall, ErrorResponse(Msg("No JSON data provided"), 400, <<>>), FALSE)
    ELSE Validated(store, Without(p, {"confirmPassword"}),
                   UserSchemaErrors(Without(p, {"confirmPassword"})))

\* RegistrationController.register.  UserSchema declares no github_username,
\* so the loaded data never carries one and the GitHub branch (a lookup by
\* User.find_by_github_username, which the model class does not define,
\* then an outbound GET) is entered by no request.
RegisterHandler(store, p) ==
    IF DOMAIN p = {}
    THEN Outcome(store, NoCall, ErrorResponse(Msg("No JSON data provided"), 400, <<>>), FALSE)
    ELSE IF "confirmPassword" \in DOMAIN p /\ Get(p, "password") # Get(p, "confirmPassword")
    THEN Outcome(store, NoCall, ErrorResponse(Msg("Passwords do not match"), 400, <<>>), FALSE)
    ELSE Validated(store, Without(p, {"confirmPassword"}),
                   UserSchemaErrors(Without(p, {"confirmPassword"})))

\* UserController.create_user (POST /api/users)
CreateUserHandler(store, p) ==
    IF DOMAIN UserSchemaErrors(p) # {}
    THEN Outcome(store, NoCall, ErrorResponse(ValidationMessage(UserSchemaErrors(p)), 400, <<>>), FALSE)
    ELSE CreateAndRespond(store, UserSchemaLoad(p), "User created successfully", "Failed to create user")

(***************************************************************************)
(* Inputs                                                                  *)
(***************************************************************************)
Opt(k, vs) == {<<>>} \cup {[x \in {k} |-> v] : v \in vs}

\* a payload that UserSchema accepts
Base(email) ==
    [email |-> email, password |-> "secret1", first_name |-> "Ann", last_name |-> "Lee"]

\* the payload of the repository's tests and of the create_admin command
NamedPayload ==
    [name |-> "Ann Lee", email |-> EmailB, github_username |-> "octocat", password |-> "secret1"]

\* dicts passed to the service and JSON bodies posted to the endpoints of
\* the user-store specification
UserData ==
    {Merge(Base(e), Merge(ro, ia)) :
        e \in {EmailA, EmailAUpper, EmailB},
        ro \in Opt("role", {"admin"}),
        ia \in Opt("is_active", {FALSE})}
    \cup {Merge(Base(EmailA), [github_username |-> "hubot"]),
          Merge(Base(EmailAUpper), [github_username |-> "octocat"]),
          Without(Base(EmailA), {"email"}), Base(EmailBad),
          Without(Base(EmailB), {"password"}), Without(Base(EmailB), {"first_name"}),
          Merge(Base(EmailB), [role |-> "bogus"]), NamedPayload, <<>>}

\* bodies of the validation specification: every combination of a missing,
\* a malformed and a well-formed value of the fields of UserSchema
SchemaBodies ==
    {Merge(e, Merge(pw, Merge(fn, Merge(ln, ro)))) :
        e \in Opt("email", {EmailA, EmailBad}),
        pw \in Opt("password", {"secret1", "short"}),
        fn \in Opt("first_name", {"Ann"}),
        ln \in Opt("last_name", {"Lee"}),
        ro \in Opt("role", {"admin", "bogus"})}
    \cup {NamedPayload, Merge(Base(EmailA), [github_username |-> "octocat"])}

SchemaRegisterBodies ==
    SchemaBodies \cup
    {Merge(d, [confirmPassword |-> cp]) :
        d \in {Base(EmailA), [email |-> EmailBad, role |-> "bogus"]},
        cp \in {"secret1", "hunter22"}}

\* registration bodies: the payloads above, and some of them with a
\* confirmPassword that equals the password or differs from it
RegisterBodies ==
    UserData \cup
    {Merge(d, [confirmPassword |-> cp]) :
        d \in {Base(EmailA), Base(EmailB), Merge(Base(EmailAUpper), [role |-> "admin"]),
               Without(Base(EmailB), {"password"}), Without(Base(EmailB), {"first_name"})},
        cp \in {"secret1", "hunter22"}}

LoginBodies ==
    {Merge(e, pw) : e \in Opt("email", Emails), pw \in Opt("password", {"secret1", "hunter22"})}

(***************************************************************************)
(* The user-store specification                                            *)
(***************************************************************************)
Init ==
    /\ users = <<>>
    /\ req = NoRequest
    /\ svc = NoCall
    /\ resp = NoResponse
    /\ outbound = FALSE

\* a direct call of UserService.create_user (the tests, the create_admin command)
CreateUserCall(d) ==
    \E r \in {CreateUser(users, d)} :
    /\ users' = r.store
    /\ req' = Request("create_user_call", d)
    /\ svc' = Called("create_user", r)
    /\ resp' = NoResponse
    /\ outbound' = FALSE

\* POST /api/auth/login
Login(p) ==
    \E o \in {LoginHandler(users, p)} :
    /\ users' = o.store
    /\ req' = Request("login", p)
    /\ svc' = o.svc
    /\ resp' = From("login", o.resp)
    /\ outbound' = o.outbound

\* POST /api/register
Register(p) ==
    \E o \in {RegisterHandler(users, p)} :
    /\ users' = o.store
    /\ req' = Request("register", p)
    /\ svc' = o.svc
    /\ resp' = From("register", o.resp)
    /\ outbound' = o.outbound

\* POST /api/users
CreateUserRequest(p) ==
    \E o \in {CreateUserHandler(users, p)} :
    /\ users' = o.store
    /\ req' = Request("create_user", p)
    /\ svc' = o.svc
    /\ resp' = From("create_user", o.resp)
    /\ outbound' = o.outbound

\* ErrorHandler: the body and status the handler registered for an HTTP
\* error code returns
ErrorHandler(code) ==
    [status |-> code,
     body |-> [success |-> FALSE,
               message |-> Msg(CASE code = 400 -> "Bad request"
                                 [] code = 401 -> "Unauthorized access"
                                 [] code = 403 -> "Forbidden"
                                 [] code = 404 -> "Resource not found"
                                 [] code = 500 -> "Internal server error"),
               error |-> CASE code = 400 -> "400 Bad Request"
                           [] code = 401 -> "Authentication required"
                           [] code = 403 -> "Insufficient permissions"
                           [] code = 404 -> "The requested resource was not found"
                           [] code = 500 -> "Something went wrong on our end"]]

\* the codes with a registered handler
HandledCodes == {400, 401, 403, 404, 500}

\* a request that ends in an HTTP error outside every endpoint handler (a
\* URL no route matches, ...): the registered error handler answers
HandleError(code) ==
    /\ req' = Request("error_handler", <<>>)
    /\ svc' = NoCall
    /\ resp' = From("error_handler", ErrorHandler(code))
    /\ outbound' = FALSE
    /\ UNCHANGED users

Next ==
    \/ \E d \in UserData : CreateUserCall(d)
    \/ \E p \in LoginBodies : Login(p)
    \/ \E p \in RegisterBodies : Register(p)
    \/ \E p \in UserData : CreateUserRequest(p)
    \/ \E code \in HandledCodes : HandleError(code)

Spec == Init /\ [][Next]_vars

\* the same handlers on the bodies of the validation specification
NextValidate ==
    \/ \E p \in LoginBodies : Login(p)
    \/ \E p \in SchemaRegisterBodies : Register(p)
    \/ \E p \in SchemaBodies : CreateUserRequest(p)

SpecValidate == Init /\ [][NextValidate]_vars

(***************************************************************************)
(* GitHubService.  An upstream outcome is a response [kind, status,        *)
(* headers, body] or an exception of the requests library; a JSON body is  *)
(* tagged with its type.  Messages keep their fixed text; of a repository  *)
(* and of a directory entry the projection keeps id / name / type.         *)
(***************************************************************************)
RateLimitHeader == "X-RateLimit-Remaining"

Response(status, headers, body) ==
    [kind |-> "response", status |-> status, headers |-> headers, body |-> body]
JsonObject(value) == [object |-> value]
JsonArray(value) == [array |-> value]

Failure(message, error_code) ==
    [success |-> FALSE, message |-> Msg(message), error_code |-> error_code]

\* a function that falls off its end returns None
NoneResult == [is_none |-> TRUE]

\* response.raise_for_status(): HTTPError for a 4xx or 5xx status
RaisesForStatus(status) == status >= 400 /\ status < 600

\* the 403 branch with the header left unread
ForbiddenWhatever(headers) ==
    Failure("Access forbidden. Authentication may be required.", "ACCESS_FORBIDDEN")

\* the 403 branch of get_user_repositories: rate limit or access forbidden
Forbidden(headers) ==
    IF RateLimitHeader \in headers
    THEN Failure("GitHub API rate limit exceeded. Please try again later.", "RATE_LIMIT_EXCEEDED")
    ELSE Failure("Access forbidden. Authentication may be required.", "ACCESS_FORBIDDEN")

\* the 200 branch with the page count rounded down
RepositoriesPageFloor(search_result, page, per_page) ==
    LET repositories == IF "items" \in DOMAIN search_result THEN search_result.items ELSE <<>>
        total_count == IF "total_count" \in DOMAIN search_result
                       THEN search_result.total_count ELSE 0
        total_pages == IF total_count > 0 THEN total_count \div per_page ELSE 1
    IN  [success |-> TRUE,
         data |-> [i \in 1..Len(repositories) |->
                     [id |-> Get(repositories[i], "id"), name |-> Get(repositories[i], "name")]],
         total_count |-> total_count,
         returned_count |-> Len(repositories),
         total_pages |-> total_pages,
         has_next_page |-> page < total_pages,
         has_prev_page |-> page > 1,
         message |-> Msg("Successfully fetched repositories")]

\* the 200 branch of get_user_repositories, for a JSON object
RepositoriesPage(search_result, page, per_page) ==
    LET repositories == IF "items" \in DOMAIN search_result THEN search_result.items ELSE <<>>
        total_count == IF "total_count" \in DOMAIN search_result
                       THEN search_result.total_count ELSE 0
        total_pages == IF total_count > 0
                       THEN (total_count + per_page - 1) \div per_page ELSE 1
    IN  [success |-> TRUE,
         data |-> [i \in 1..Len(repositories) |->
                     [id |-> Get(repositories[i], "id"), name |-> Get(repositories[i], "name")]],
         total_count |-> total_count,
         returned_count |-> Len(repositories),
         total_pages |-> total_pages,
         has_next_page |-> page < total_pages,
         has_prev_page |-> page > 1,
         message |-> Msg("Successfully fetched repositories")]

\* GitHubService.get_user_repositories
GetUserRepositories(page, per_page, u) ==
    IF u.kind = "timeout"
    THEN Failure("Request timeout while fetching repositories from GitHub", "REQUEST_TIMEOUT")
    ELSE IF u.kind = "connection_error"
    THEN Failure("Connection error while contacting GitHub API", "CONNECTION_ERROR")
    ELSE IF u.kind = "request_exception"
    THEN Failure("Error fetching repositories: ", "REQUEST_ERROR")
    ELSE IF u.status = 200
    THEN (IF "object" \in DOMAIN u.body
          THEN RepositoriesPage(u.body.object, page, per_page)
          ELSE Failure("An unexpected error occurred while fetching repositories",
                       "UNEXPECTED_ERROR"))
    ELSE IF u.status = 422
    THEN Failure("Invalid search query for user", "INVALID_SEARCH_QUERY")
    ELSE IF u.status = 403
    THEN Forbidden(u.headers)
    ELSE IF RaisesForStatus(u.status)
    THEN Failure("Error fetching repositories: ", "REQUEST_ERROR")
    ELSE NoneResult

\* one entry of a directory listing, and a file
DirectoryEntry(item) == [name |-> Get(item, "name"), type |-> Get(item, "type")]
FileEntry(file) ==
    [name |-> Get(file, "name"), type |-> Get(file, "type"),
     content |-> Get(file, "content"), encoding |-> Get(file, "encoding")]

\* GitHubService.get_repository_details: every exception, a timeout and a
\* connection failure included, is caught by the one except clause
GetRepositoryDetails(owner, repo_name, path, u) ==
    IF u.kind # "response"
    THEN Failure("Error fetching repository contents: ", "REQUEST_ERROR")
    ELSE IF u.status = 200
    THEN (IF "array" \in DOMAIN u.body
          THEN [success |-> TRUE,
                data |-> [type |-> "directory",
                          contents |-> [i \in 1..Len(u.body.array) |->
                                          DirectoryEntry(u.body.array[i])],
                          path |-> path,
                          repository |-> <<owner, "/", repo_name>>],
                message |-> Msg("Successfully fetched directory contents")]
          ELSE [success |-> TRUE,
                data |-> [type |-> "file",
                          file |-> FileEntry(u.body.object),
                          path |-> path,
                          repository |-> <<owner, "/", repo_name>>],
                message |-> Msg("Successfully fetched file contents")])
    ELSE IF u.status = 404
    THEN Failure("Path not found in repository", "PATH_NOT_FOUND")
    ELSE IF u.status = 403
    THEN Failure("Access forbidden. The repository may be private or you may not have permission.",
                 "ACCESS_FORBIDDEN")
    ELSE IF RaisesForStatus(u.status)
    THEN Failure("Error fetching repository contents: ", "REQUEST_ERROR")
    ELSE NoneResult

(***************************************************************************)
(* GitHubController.  A query string is a dict of raw strings (sequences   *)
(* of characters).  The handlers read current_user.github_username; the    *)
(* mapped User class declares no such column while the table built by the  *)
(* migration scripts has one, so what the attribute yields is an input of  *)
(* the handler: gh = <<>> is the AttributeError, <<name>> a stored name.   *)
(***************************************************************************)
DigitChars == <<"0", "1", "2", "3", "4", "5", "6", "7", "8", "9">>
IsDigit(c) == \E n \in 1..10 : DigitChars[n] = c
DigitValue(c) == (CHOOSE n \in 1..10 : DigitChars[n] = c) - 1

\* int(s) for a string of decimal digits
RECURSIVE ToNat(_)
ToNat(s) ==
    IF Len(s) = 0 THEN 0
    ELSE 10 * ToNat(SubSeq(s, 1, Len(s) - 1)) + DigitValue(s[Len(s)])

\* whether int(s) succeeds: digits with an optional sign
IsIntLiteral(s) ==
    \/ Len(s) >= 1 /\ \A i \in 1..Len(s) : IsDigit(s[i])
    \/ Len(s) >= 2 /\ s[1] = "-" /\ \A i \in 2..Len(s) : IsDigit(s[i])

ToInt(s) == IF s[1] = "-" THEN 0 - ToNat(Tail(s)) ELSE ToNat(s)

\* request.args.get(key, default, type=int): the default also when the
\* conversion raises
ArgInt(args, k, default) ==
    IF k \in DOMAIN args /\ IsIntLiteral(args[k]) THEN ToInt(args[k]) ELSE default

\* request.args.get(key, default)
ArgStr(args, k, default) == IF k \in DOMAIN args THEN args[k] ELSE default

\* str.strip() is empty
IsBlank(s) == \A i \in 1..Len(s) : s[i] = " "

InvalidValue == "Invalid value."

\* ValidationError.messages of GitHubRepositoryQuerySchema().load(...) on the
\* dict the handler builds (search is an optional value)
RepositoryQueryErrors(search, page, per_page, sort, order) ==
    LET bad == (IF search # <<>> /\ IsBlank(search[1]) THEN {"search"} ELSE {})
               \cup (IF page >= 1 THEN {} ELSE {"page"})
               \cup (IF 1 <= per_page /\ per_page <= 100 THEN {} ELSE {"per_page"})
               \cup (IF sort \in {"updated_at", "name"} THEN {} ELSE {"sort"})
               \cup (IF order \in {"asc", "desc"} THEN {} ELSE {"order"})
    IN  [f \in bad |-> InvalidValue]

\* status_code_map.get(error_code, 500) of get_user_repositories
RepositoriesStatusCode(error_code) ==
    CASE error_code = "USER_NOT_FOUND" -> 404
      [] error_code = "RATE_LIMIT_EXCEEDED" -> 429
      [] error_code = "ACCESS_FORBIDDEN" -> 403
      [] error_code = "REQUEST_TIMEOUT" -> 408
      [] error_code = "CONNECTION_ERROR" -> 503
      [] error_code = "REQUEST_ERROR" -> 502
      [] error_code = "UNEXPECTED_ERROR" -> 500
      [] OTHER -> 500

GitHubCalled(op, result) == [op |-> op, result |-> result]
GitHubOutcome(call, response, out) == [svc |-> call, resp |-> response, outbound |-> out]

RepositoriesUnexpected ==
    ErrorResponse(Msg("An unexpected error occurred while fetching repositories"), 500, <<>>)

\* get_user_repositories from the service call on: the success envelope,
\* the mapped failure, or the TypeError of subscripting None
RepositoriesResponded(result, gh, page, per_page, sort, order) ==
    IF "is_none" \in DOMAIN result
    THEN GitHubOutcome(GitHubCalled("get_user_repositories", result), RepositoriesUnexpected, TRUE)
    ELSE IF result.success
    THEN GitHubOutcome(GitHubCalled("get_user_repositories", result),
            SuccessResponse(<<[repositories |-> result.data,
                               total_count |-> result.total_count,
                               returned_count |-> result.returned_count,
                               github_username |-> gh[1],
                               pagination |-> [page |-> page,
                                               per_page |-> per_page,
                                               total_pages |-> result.total_pages,
                                               has_next_page |-> result.has_next_page,
                                               has_prev_page |-> result.has_prev_page],
                               sort |-> [sort_by |-> sort, order |-> order]]>>,
                            result.message, 200), TRUE)
    ELSE GitHubOutcome(GitHubCalled("get_user_repositories", result),
            ErrorResponse(result.message, RepositoriesStatusCode(result.error_code), <<>>), TRUE)

\* get_user_repositories from the query parameters on
RepositoriesQueried(gh, search, page, per_page, sort, order, u) ==
    IF DOMAIN RepositoryQueryErrors(search, page, per_page, sort, order) # {}
    THEN GitHubOutcome(NoCall,
            ErrorResponse(Msg("Invalid parameters"), 400,
                          RepositoryQueryErrors(search, page, per_page, sort, order)), FALSE)
    ELSE RepositoriesResponded(GetUserRepositories(page, per_page, u),
                               gh, page, per_page, sort, order)

\* GitHubController.get_user_repositories
GetUserRepositoriesHandler(store, uid, gh, args, u) ==
    IF FindById(store, uid) = 0
    THEN GitHubOutcome(NoCall, ErrorResponse(Msg("User not found"), 404, <<>>), FALSE)
    ELSE IF gh = <<>>
    THEN GitHubOutcome(NoCall, RepositoriesUnexpected, FALSE)
    ELSE RepositoriesQueried(gh, Get(args, "search"),
                             ArgInt(args, "page", 1), ArgInt(args, "per_page", 30),
                             ArgStr(args, "sort", "updated_at"), ArgStr(args, "order", "desc"), u)

\* GitHubController.get_repository_details: the service is called with a
\* branch keyword that GitHubService.get_repository_details does not take,
\* so the call raises TypeError and the handler answers 500 before any
\* upstream request
GetRepositoryDetailsHandler(store, uid, gh, repo_name, args) ==
    IF FindById(store, uid) = 0
    THEN GitHubOutcome(NoCall, ErrorResponse(Msg("User not found"), 404, <<>>), FALSE)
    ELSE IF gh = <<>>
    THEN GitHubOutcome(NoCall,
            ErrorResponse(Msg("An unexpected error occurred while fetching repository contents"),
                          500, <<>>), FALSE)
    ELSE IF IsBlank(repo_name)
    THEN GitHubOutcome(NoCall,
            ErrorResponse(Msg("Invalid parameters"), 400, [repo_name |-> InvalidValue]), FALSE)
    ELSE GitHubOutcome(NoCall,
            ErrorResponse(Msg("An unexpected error occurred while fetching repository contents"),
                          500, <<>>), FALSE)

\* GitHubController.get_repository_branches: GitHubService defines no
\* get_repository_branches, so the call raises AttributeError
GetRepositoryBranchesHandler(store, uid, gh, repo_name) ==
    IF FindById(store, uid) = 0
    THEN GitHubOutcome(NoCall, ErrorResponse(Msg("User not found"), 404, <<>>), FALSE)
    ELSE IF gh = <<>>
    THEN GitHubOutcome(NoCall,
            ErrorResponse(Msg("An unexpected error occurred while fetching repository branches"),
                          500, <<>>), FALSE)
    ELSE IF IsBlank(repo_name)
    THEN GitHubOutcome(NoCall,
            ErrorResponse(Msg("Invalid parameters"), 400, [repo_name |-> InvalidValue]), FALSE)
    ELSE GitHubOutcome(NoCall,
            ErrorResponse(Msg("An unexpected error occurred while fetching repository branches"),
                          500, <<>>), FALSE)

(***************************************************************************)
(* The GitHub-proxy specification                                          *)
(***************************************************************************)
MaxTotalCount == 5
MaxPage == 3
PerPages == {1, 2, 100}

Repo(n) == [id |-> n, name |-> "repo"]
SearchResult(t) ==
    JsonObject([total_count |-> t, items |-> IF t > 0 THEN <<Repo(1)>> ELSE <<>>])

Exceptions == {[kind |-> "timeout"], [kind |-> "connection_error"], [kind |-> "request_exception"]}

ErrorResponses ==
    {Response(st, {}, JsonObject(<<>>)) : st \in {204, 403, 404, 422, 500}}
    \cup {Response(st, {RateLimitHeader}, JsonObject(<<>>)) : st \in {403, 404}}

SearchUpstreams ==
    {Response(200, {RateLimitHeader}, SearchResult(t)) : t \in 0..MaxTotalCount}
    \cup {Response(200, {}, JsonObject([items |-> <<Repo(1)>>])), Response(200, {}, JsonArray(<<>>))}
    \cup ErrorResponses \cup Exceptions

HandlerUpstreams ==
    {Response(200, {RateLimitHeader}, SearchResult(t)) : t \in {0, MaxTotalCount}}
    \cup ErrorResponses \cup Exceptions

ContentsUpstreams ==
    {Response(200, {}, JsonArray(<<[name |-> "a.py", type |-> "file"], [name |-> "src", type |-> "dir"]>>)),
     Response(200, {}, JsonObject([name |-> "a.py", type |-> "file",
                                   content |-> "cHJpbnQoMSk=", encoding |-> "base64"]))}
    \cup ErrorResponses \cup Exceptions

Callers == {<<1, <<"octocat">>>>, <<1, <<>>>>, <<2, <<"octocat">>>>}

RepositoryQueries ==
    {<<>>, [page |-> <<"2">>], [page |-> <<"0">>], [page |-> <<"x">>],
     [per_page |-> <<"2">>], [per_page |-> <<"1", "0", "1">>],
     [page |-> <<"2">>, per_page |-> <<"2">>], [sort |-> "bogus"], [search |-> <<" ">>]}

RepoNames == {<<"r">>, <<" ">>}

\* the table holds one user, created by create_user
InitGitHub ==
    /\ users = CreateUser(<<>>, Base(EmailA)).store
    /\ req = NoRequest
    /\ svc = NoCall
    /\ resp = NoResponse
    /\ outbound = FALSE

\* a direct call of GitHubService.get_user_repositories
GetUserRepositoriesCall(page, per_page, u) ==
    /\ req' = [handler |-> "get_user_repositories_call",
               page |-> page, per_page |-> per_page, upstream |-> u]
    /\ svc' = GitHubCalled("get_user_repositories", GetUserRepositories(page, per_page, u))
    /\ resp' = NoResponse
    /\ outbound' = TRUE
    /\ UNCHANGED users

\* a direct call of GitHubService.get_repository_details
GetRepositoryDetailsCall(path, u) ==
    /\ req' = [handler |-> "get_repository_details_call", path |-> path, upstream |-> u]
    /\ svc' = GitHubCalled("get_repository_details",
                           GetRepositoryDetails("octocat", "r", path, u))
    /\ resp' = NoResponse
    /\ outbound' = TRUE
    /\ UNCHANGED users

\* GET /api/github/repositories
GetUserRepositoriesRequest(uid, gh, args, u) ==
    \E o \in {GetUserRepositoriesHandler(users, uid, gh, args, u)} :
    /\ req' = [handler |-> "get_user_repositories", uid |-> uid, gh |-> gh,
               args |-> args, upstream |-> u]
    /\ svc' = o.svc
    /\ resp' = From("get_user_repositories", o.resp)
    /\ outbound' = o.outbound
    /\ UNCHANGED users

\* GET /api/github/repository/<repo_name>
GetRepositoryDetailsRequest(uid, gh, repo_name, args) ==
    \E o \in {GetRepositoryDetailsHandler(users, uid, gh, repo_name, args)} :
    /\ req' = [handler |-> "get_repository_details", uid |-> uid, gh |-> gh,
               repo_name |-> repo_name, args |-> args]
    /\ svc' = o.svc
    /\ resp' = From("get_repository_details", o.resp)
    /\ outbound' = o.outbound
    /\ UNCHANGED users

\* GET /api/github/repository/<repo_name>/branches
GetRepositoryBranchesRequest(uid, gh, repo_name) ==
    \E o \in {GetRepositoryBranchesHandler(users, uid, gh, repo_name)} :
    /\ req' = [handler |-> "get_repository_branches", uid |-> uid, gh |-> gh,
               repo_name |-> repo_name]
    /\ svc' = o.svc
    /\ resp' = From("get_repository_branches", o.resp)
    /\ outbound' = o.outbound
    /\ UNCHANGED users

NextGitHub ==
    \/ \E page \in 1..MaxPage, per_page \in PerPages, u \in SearchUpstreams :
          GetUserRepositoriesCall(page, per_page, u)
    \/ \E path \in {"", "src"}, u \in ContentsUpstreams : GetRepositoryDetailsCall(path, u)
    \/ \E c \in Callers, args \in RepositoryQueries, u \in HandlerUpstreams :
          GetUserRepositoriesRequest(c[1], c[2], args, u)
    \/ \E c \in Callers, repo_name \in RepoNames,
          args \in {<<>>, [path |-> "src"], [branch |-> "dev"]} :
          GetRepositoryDetailsRequest(c[1], c[2], repo_name, args)
    \/ \E c \in Callers, repo_name \in RepoNames :
          GetRepositoryBranchesRequest(c[1], c[2], repo_name)

SpecGitHub == InitGitHub /\ [][NextGitHub]_vars

(***************************************************************************)
(* UserService: the operations on an existing user                         *)
(***************************************************************************)
\* BaseModel.update(**kwargs) on row id: setattr runs the @validates hooks
\* (email before role, the order of the schema's fields), commit checks the
\* UNIQUE constraint; a failed request leaves the table as it was
ModelUpdate(store, id, kw) ==
    IF "email" \in DOMAIN kw /\ ~MatchEmail(kw.email)
    THEN [exc |-> "ValueError", message |-> Msg("Invalid email format"), store |-> store, id |-> 0]
    ELSE IF "role" \in DOMAIN kw /\ kw.role \notin AllowedRoles
    THEN [exc |-> "ValueError", message |-> Msg("Role must be one of: user, admin, moderator"),
          store |-> store, id |-> 0]
    ELSE IF "email" \in DOMAIN kw
            /\ \E j \in 1..Len(store) : j # id /\ store[j].email = Lower(kw.email)
    THEN [exc |-> "IntegrityError", message |-> Msg("UNIQUE constraint failed"),
          store |-> store, id |-> 0]
    ELSE [exc |-> "", message |-> Msg(""),
          store |-> [store EXCEPT ![id] =
                        [c \in DOMAIN store[id] |->
                            IF c \in DOMAIN kw \cap UserColumns
                            THEN (IF c = "email" THEN Lower(kw.email) ELSE kw[c])
                            ELSE store[id][c]]],
          id |-> id]

\* the outcome of ModelUpdate, the table restored when it raised
Updated(store, r) ==
    IF r.exc # "" THEN [exc |-> r.exc, message |-> r.message, store |-> store, id |-> 0] ELSE r

\* UserService.update_user
UpdateUser(store, user_id, update_data) ==
    IF FindById(store, user_id) = 0
    THEN [exc |-> "ValueError", message |-> Msg("User not found"), store |-> store, id |-> 0]
    ELSE Updated(store,
            ModelUpdate(IF "password" \in DOMAIN update_data
                        THEN [store EXCEPT ![user_id].password_hash =
                                               PasswordHash(update_data.password)]
                        ELSE store,
                        user_id, Without(update_data, {"password"})))

\* delete_user that removes the row
DeleteUserHard(store, user_id) ==
    IF FindById(store, user_id) = 0
    THEN [exc |-> "ValueError", message |-> Msg("User not found"), store |-> store, id |-> 0]
    ELSE [exc |-> "", message |-> Msg(""),
          store |-> SubSeq(store, 1, user_id - 1) \o SubSeq(store, user_id + 1, Len(store)),
          id |-> user_id]

\* UserService.delete_user: deactivation
DeleteUser(store, user_id) ==
    IF FindById(store, user_id) = 0
    THEN [exc |-> "ValueError", message |-> Msg("User not found"), store |-> store, id |-> 0]
    ELSE ModelUpdate(store, user_id, [is_active |-> FALSE])

\* UserService.promote_to_admin
PromoteToAdmin(store, user_id) ==
    IF FindById(store, user_id) = 0
    THEN [exc |-> "ValueError", message |-> Msg("User not found"), store |-> store, id |-> 0]
    ELSE ModelUpdate(store, user_id, [role |-> "admin"])

\* the ids of a query's rows, in id order
RECURSIVE Rows(_, _)
Rows(n, keep) ==
    IF n = 0 THEN <<>>
    ELSE IF n \in keep THEN Append(Rows(n - 1, keep), n) ELSE Rows(n - 1, keep)

\* UserService.get_all_users
GetAllUsers(store, include_inactive) ==
    Rows(Len(store), {i \in 1..Len(store) : include_inactive \/ store[i].is_active})

\* the characters of the names the requests use
NameChars(name) ==
    CASE name = "Ann" -> <<"A", "n", "n">>
      [] name = "Lee" -> <<"L", "e", "e">>
      [] name = "Bob" -> <<"B", "o", "b">>
      [] OTHER -> <<>>

\* column LIKE '%query%' (SQLite: case-insensitive for ASCII letters)
Like(column, query) ==
    \E k \in 0..(Len(column) - Len(query)) :
        Lower(SubSeq(column, k + 1, k + Len(query))) = Lower(query)

\* UserService.search_users: the matching active rows and the page of them
SearchUsers(store, query, page, per_page) ==
    LET found == Rows(Len(store),
                      {i \in 1..Len(store) :
                          /\ store[i].is_active
                          /\ \/ Like(store[i].email, query)
                             \/ Like(NameChars(store[i].first_name), query)
                             \/ Like(NameChars(store[i].last_name), query)})
        pages == (Len(found) + per_page - 1) \div per_page
    IN  [items |-> SubSeq(found, (page - 1) * per_page + 1,
                          IF page * per_page < Len(found) THEN page * per_page ELSE Len(found)),
         page |-> page, pages |-> pages, per_page |-> per_page, total |-> Len(found),
         has_next |-> page < pages, has_prev |-> page > 1]

\* UserUpdateSchema: the fields of UserSchema, none required
UserUpdateSchemaFields == {"email", "password", "first_name", "last_name", "role", "is_active"}

UserUpdateSchemaFieldError(p, f) ==
    IF f \notin UserUpdateSchemaFields THEN UnknownField
    ELSE IF f \notin DOMAIN p THEN ""
    ELSE UserSchemaFieldError(p, f)

\* ValidationError.messages of UserUpdateSchema().load(p)
UserUpdateSchemaErrors(p) ==
    LET bad == {f \in DOMAIN p : UserUpdateSchemaFieldError(p, f) # ""}
    IN  [f \in bad |-> UserUpdateSchemaFieldError(p, f)]

(***************************************************************************)
(* UserController: the endpoints behind a JWT.  current_user_id is the     *)
(* identity of the token, the id of an existing row; svc records the       *)
(* service operation a handler invokes once the caller's own row is        *)
(* loaded, NoCall when it invokes none.                                    *)
(***************************************************************************)
IsAdmin(store, id) == store[id].role = "admin"

\* the record of a service operation that reads
Read(id) == [exc |-> "", message |-> Msg(""), id |-> id]

\* users_schema.dump(rows)
UsersSchemaDump(store, ids) == [i \in 1..Len(ids) |-> UserSchemaDump(store, ids[i])]

True == <<"t", "r", "u", "e">>

\* UserController.get_users
GetUsersHandler(store, current_user_id, args) ==
    IF FindById(store, current_user_id) = 0
    THEN Outcome(store, NoCall, ErrorResponse(Msg("Failed to get users"), 500, <<>>), FALSE)
    ELSE IF ~IsAdmin(store, current_user_id)
    THEN Outcome(store, NoCall, ErrorResponse(Msg("Admin access required"), 403, <<>>), FALSE)
    ELSE Outcome(store, Called("get_all_users", Read(0)),
                 SuccessResponse(<<UsersSchemaDump(store,
                                     GetAllUsers(store,
                                        Lower(ArgStr(args, "include_inactive", <<>>)) = True))>>,
                                 Msg("Success"), 200), FALSE)

\* get_user that stamps the row it reads, as authenticate_user does
GetUserHandlerStamping(store, current_user_id, user_id) ==
    IF FindById(store, current_user_id) = 0
    THEN Outcome(store, NoCall, ErrorResponse(Msg("User not found"), 404, <<>>), FALSE)
    ELSE IF current_user_id # user_id /\ ~IsAdmin(store, current_user_id)
    THEN Outcome(store, NoCall, ErrorResponse(Msg("Access denied"), 403, <<>>), FALSE)
    ELSE IF FindById(store, user_id) = 0
    THEN Outcome(store, Called("get_user_by_id", [exc |-> "ValueError",
                                                  message |-> Msg("User not found"), id |-> 0]),
                 ErrorResponse(Msg("User not found"), 404, <<>>), FALSE)
    ELSE Outcome([store EXCEPT ![user_id].last_login = TRUE],
                 Called("get_user_by_id", Read(user_id)),
                 SuccessResponse(<<UserSchemaDump(store, user_id)>>, Msg("Success"), 200), FALSE)

\* UserController.get_user
GetUserHandler(store, current_user_id, user_id) ==
    IF FindById(store, current_user_id) = 0
    THEN Outcome(store, NoCall, ErrorResponse(Msg("User not found"), 404, <<>>), FALSE)
    ELSE IF current_user_id # user_id /\ ~IsAdmin(store, current_user_id)
    THEN Outcome(store, NoCall, ErrorResponse(Msg("Access denied"), 403, <<>>), FALSE)
    ELSE IF FindById(store, user_id) = 0
    THEN Outcome(store, Called("get_user_by_id", [exc |-> "ValueError",
                                                  message |-> Msg("User not found"), id |-> 0]),
                 ErrorResponse(Msg("User not found"), 404, <<>>), FALSE)
    ELSE Outcome(store, Called("get_user_by_id", Read(user_id)),
                 SuccessResponse(<<UserSchemaDump(store, user_id)>>, Msg("Success"), 200), FALSE)

\* the response to the outcome r of a service operation that writes:
\* ValueError -> not_found, any other exception -> 500
Written(op, r, data, message, not_found, failed) ==
    IF r.exc = ""
    THEN Outcome(r.store, Called(op, r), SuccessResponse(data, Msg(message), 200), FALSE)
    ELSE IF r.exc = "ValueError"
    THEN Outcome(r.store, Called(op, r), ErrorResponse(r.message, not_found, <<>>), FALSE)
    ELSE Outcome(r.store, Called(op, r), ErrorResponse(Msg(failed), 500, <<>>), FALSE)

UserUpdated(r) ==
    Written("update_user", r,
            IF r.exc = "" THEN <<UserSchemaDump(r.store, r.id)>> ELSE <<>>,
            "User updated successfully", 400, "Failed to update user")

\* update_user without the permission check
UpdateUserHandlerOpen(store, current_user_id, user_id, p) ==
    IF FindById(store, current_user_id) = 0
    THEN Outcome(store, NoCall, ErrorResponse(Msg("User not found"), 400, <<>>), FALSE)
    ELSE IF DOMAIN UserUpdateSchemaErrors(p) # {}
    THEN Outcome(store, NoCall,
                 ErrorResponse(ValidationMessage(UserUpdateSchemaErrors(p)), 400, <<>>), FALSE)
    ELSE UserUpdated(UpdateUser(store, user_id, p))

\* UserController.update_user
UpdateUserHandler(store, current_user_id, user_id, p) ==
    IF FindById(store, current_user_id) = 0
    THEN Outcome(store, NoCall, ErrorResponse(Msg("User not found"), 400, <<>>), FALSE)
    ELSE IF current_user_id # user_id /\ ~IsAdmin(store, current_user_id)
    THEN Outcome(store, NoCall, ErrorResponse(Msg("Access denied"), 403, <<>>), FALSE)
    ELSE IF DOMAIN UserUpdateSchemaErrors(p) # {}
    THEN Outcome(store, NoCall,
                 ErrorResponse(ValidationMessage(UserUpdateSchemaErrors(p)), 400, <<>>), FALSE)
    ELSE UserUpdated(UpdateUser(store, user_id,
                        IF current_user_id = user_id /\ ~IsAdmin(store, current_user_id)
                        THEN Without(p, {"role", "is_active"}) ELSE p))

\* UserController.delete_user
DeleteUserHandler(store, current_user_id, user_id) ==
    IF FindById(store, current_user_id) = 0
    THEN Outcome(store, NoCall, ErrorResponse(Msg("User not found"), 404, <<>>), FALSE)
    ELSE IF ~IsAdmin(store, current_user_id)
    THEN Outcome(store, NoCall, ErrorResponse(Msg("Admin access required"), 403, <<>>), FALSE)
    ELSE IF current_user_id = user_id
    THEN Outcome(store, NoCall,
                 ErrorResponse(Msg("Cannot delete your own account"), 400, <<>>), FALSE)
    ELSE Written("delete_user", DeleteUser(store, user_id), <<>>,
                 "User deleted successfully", 404, "Failed to delete user")

\* search_users after the admin check: int() of page and per_page, then
\* the empty query, then the search
Searched(store, query, page, per_page) ==
    IF ~IsIntLiteral(page) \/ ~IsIntLiteral(per_page)
    THEN Outcome(store, NoCall, ErrorResponse(Msg("Failed to search users"), 500, <<>>), FALSE)
    ELSE IF query = <<>>
    THEN Outcome(store, NoCall, ErrorResponse(Msg("Search query is required"), 400, <<>>), FALSE)
    ELSE LET result == SearchUsers(store, query, ToInt(page), ToInt(per_page)) IN
         Outcome(store, Called("search_users", Read(0)),
                 SuccessResponse(<<[users |-> UsersSchemaDump(store, result.items),
                                    pagination |-> [page |-> result.page,
                                                    pages |-> result.pages,
                                                    per_page |-> result.per_page,
                                                    total |-> result.total,
                                                    has_next |-> result.has_next,
                                                    has_prev |-> result.has_prev]]>>,
                                 Msg("Success"), 200), FALSE)

\* UserController.search_users
SearchUsersHandler(store, current_user_id, args) ==
    IF FindById(store, current_user_id) = 0
    THEN Outcome(store, NoCall, ErrorResponse(Msg("Failed to search users"), 500, <<>>), FALSE)
    ELSE IF ~IsAdmin(store, current_user_id)
    THEN Outcome(store, NoCall, ErrorResponse(Msg("Admin access required"), 403, <<>>), FALSE)
    ELSE Searched(store, ArgStr(args, "q", <<>>),
                  ArgStr(args, "page", <<"1">>), ArgStr(args, "per_page", <<"2", "0">>))

\* UserController.promote_user
PromoteUserHandler(store, current_user_id, user_id) ==
    IF FindById(store, current_user_id) = 0
    THEN Outcome(store, NoCall, ErrorResponse(Msg("User not found"), 404, <<>>), FALSE)
    ELSE IF ~IsAdmin(store, current_user_id)
    THEN Outcome(store, NoCall, ErrorResponse(Msg("Admin access required"), 403, <<>>), FALSE)
    ELSE LET r == PromoteToAdmin(store, user_id) IN
         Written("promote_to_admin", r,
                 IF r.exc = "" THEN <<UserSchemaDump(r.store, r.id)>> ELSE <<>>,
                 "User promoted to admin successfully", 404, "Failed to promote user")

(***************************************************************************)
(* The specification of user administration: an admin and a user exist,    *)
(* and any of them calls the endpoints behind the JWT.                     *)
(***************************************************************************)
MaxUserId == 3

\* the identities of the tokens: the ids of the rows of InitUsers
CallerIds == {1, 2}

UpdateBodies ==
    {<<>>, [password |-> "hunter22"], [password |-> "short"], [email |-> EmailAUpper],
     [email |-> EmailBad], [role |-> "admin"], [role |-> "user", is_active |-> FALSE],
     [first_name |-> "Bob"], [role |-> "bogus"], [github_username |-> "octocat"],
     [password |-> "hunter22", current_password |-> "secret1"]}

SearchQueries ==
    {<<>>, [q |-> <<"a", "n">>], [q |-> <<"@">>, page |-> <<"2">>, per_page |-> <<"1">>],
     [q |-> <<"z">>], [q |-> <<"a">>, page |-> <<"x">>]}

UserListQueries == {<<>>, [include_inactive |-> <<"T", "r", "u", "e">>]}

InitUsers ==
    /\ users = CreateUser(CreateUser(<<>>, Merge(Base(EmailA), [role |-> "admin"])).store,
                          Base(EmailB)).store
    /\ req = NoRequest
    /\ svc = NoCall
    /\ resp = NoResponse
    /\ outbound = FALSE

\* GET /api/users
GetUsers(current_user_id, args) ==
    \E o \in {GetUsersHandler(users, current_user_id, args)} :
    /\ current_user_id \in 1..Len(users)
    /\ req' = [handler |-> "get_users", caller |-> current_user_id, args |-> args]
    /\ users' = o.store
    /\ svc' = o.svc
    /\ resp' = From("get_users", o.resp)
    /\ outbound' = o.outbound

\* GET /api/users/<user_id>
GetUser(current_user_id, user_id) ==
    \E o \in {GetUserHandler(users, current_user_id, user_id)} :
    /\ current_user_id \in 1..Len(users)
    /\ req' = [handler |-> "get_user", caller |-> current_user_id, user_id |-> user_id]
    /\ users' = o.store
    /\ svc' = o.svc
    /\ resp' = From("get_user", o.resp)
    /\ outbound' = o.outbound

\* PUT /api/users/<user_id>
UpdateUserRequest(current_user_id, user_id, p) ==
    \E o \in {UpdateUserHandler(users, current_user_id, user_id, p)} :
    /\ current_user_id \in 1..Len(users)
    /\ req' = [handler |-> "update_user", caller |-> current_user_id, user_id |-> user_id,
               body |-> p]
    /\ users' = o.store
    /\ svc' = o.svc
    /\ resp' = From("update_user", o.resp)
    /\ outbound' = o.outbound

\* DELETE /api/users/<user_id>
DeleteUserRequest(current_user_id, user_id) ==
    \E o \in {DeleteUserHandler(users, current_user_id, user_id)} :
    /\ current_user_id \in 1..Len(users)
    /\ req' = [handler |-> "delete_user", caller |-> current_user_id, user_id |-> user_id]
    /\ users' = o.store
    /\ svc' = o.svc
    /\ resp' = From("delete_user", o.resp)
    /\ outbound' = o.outbound

\* GET /api/users/search
SearchUsersRequest(current_user_id, args) ==
    \E o \in {SearchUsersHandler(users, current_user_id, args)} :
    /\ current_user_id \in 1..Len(users)
    /\ req' = [handler |-> "search_users", caller |-> current_user_id, args |-> args]
    /\ users' = o.store
    /\ svc' = o.svc
    /\ resp' = From("search_users", o.resp)
    /\ outbound' = o.outbound

\* PUT /api/users/<user_id>/promote
PromoteUser(current_user_id, user_id) ==
    \E o \in {PromoteUserHandler(users, current_user_id, user_id)} :
    /\ current_user_id \in 1..Len(users)
    /\ req' = [handler |-> "promote_user", caller |-> current_user_id, user_id |-> user_id]
    /\ users' = o.store
    /\ svc' = o.svc
    /\ resp' = From("promote_user", o.resp)
    /\ outbound' = o.outbound

NextUsers ==
    \/ \E c \in CallerIds, args \in UserListQueries : GetUsers(c, args)
    \/ \E c \in CallerIds, id \in 1..MaxUserId : GetUser(c, id)
    \/ \E c \in CallerIds, id \in 1..MaxUserId, p \in UpdateBodies :
          UpdateUserRequest(c, id, p)
    \/ \E c \in CallerIds, id \in 1..MaxUserId : DeleteUserRequest(c, id)
    \/ \E c \in CallerIds, args \in SearchQueries : SearchUsersRequest(c, args)
    \/ \E c \in CallerIds, id \in 1..MaxUserId : PromoteUser(c, id)

SpecUsers == InitUsers /\ [][NextUsers]_vars

(***************************************************************************)
(* Concurrent requests.  Each worker serves one request at a time in its   *)
(* own session; the statements the workers send to the database            *)
(* interleave.  create_user is the SELECT of find_by_email, then the        *)
(* INSERT of save; update_user is the SELECT of get_user_by_id, then the    *)
(* UPDATE of the commit.  req and resp hold one entry for each worker.      *)
(***************************************************************************)
MaxRows == 3
Workers == {1, 2}

ConcurrentEmails == {EmailA, EmailAUpper, EmailB}

Idle == [handler |-> "none", step |-> "idle"]
NoOutcome == [exc |-> "", message |-> Msg("")]

InitConcurrent ==
    /\ users = <<>>
    /\ req = [w \in Workers |-> Idle]
    /\ resp = [w \in Workers |-> NoOutcome]
    /\ svc = NoCall
    /\ outbound = FALSE

\* a worker enters UserService.create_user
BeginCreateUser(w, user_data) ==
    /\ req[w].step = "idle"
    /\ Len(users) < MaxRows
    /\ req' = [req EXCEPT ![w] = [handler |-> "create_user", step |-> "find_by_email",
                                  user_data |-> user_data]]
    /\ resp' = [resp EXCEPT ![w] = NoOutcome]
    /\ UNCHANGED <<users, svc, outbound>>

\* existing_user = self.model.find_by_email(user_data['email'])
FindExisting(w) ==
    /\ req[w].step = "find_by_email"
    /\ IF FindByEmail(users, req[w].user_data.email) # 0
       THEN /\ req' = [req EXCEPT ![w].step = "done"]
            /\ resp' = [resp EXCEPT ![w] =
                           [exc |-> "ValueError",
                            message |-> Msg("User with this email already exists")]]
       ELSE /\ req' = [req EXCEPT ![w].step = "save"]
            /\ UNCHANGED resp
    /\ UNCHANGED <<users, svc, outbound>>

\* user = self.model(**user_data); user.save()
SaveUser(w) ==
    /\ req[w].step = "save"
    /\ LET init == UserInit(req[w].user_data)
           saved == IF init.exc # ""
                    THEN [exc |-> init.exc, message |-> init.message, store |-> users]
                    ELSE Save(users, init.obj)
       IN  /\ users' = saved.store
           /\ resp' = [resp EXCEPT ![w] = [exc |-> saved.exc, message |-> saved.message]]
    /\ req' = [req EXCEPT ![w].step = "done"]
    /\ UNCHANGED <<svc, outbound>>

\* a worker enters UserService.update_user: user = self.get_user_by_id(user_id)
BeginUpdateUser(w, user_id, update_data) ==
    /\ req[w].step = "idle"
    /\ IF FindById(users, user_id) = 0
       THEN /\ req' = [req EXCEPT ![w] = [handler |-> "update_user", step |-> "done",
                                          user_id |-> user_id, update_data |-> update_data]]
            /\ resp' = [resp EXCEPT ![w] = [exc |-> "ValueError",
                                            message |-> Msg("User not found")]]
       ELSE /\ req' = [req EXCEPT ![w] = [handler |-> "update_user", step |-> "update",
                                          user_id |-> user_id, update_data |-> update_data]]
            /\ resp' = [resp EXCEPT ![w] = NoOutcome]
    /\ UNCHANGED <<users, svc, outbound>>

\* user.update(**update_data): the setattr of each key, then the commit
CommitUpdate(w) ==
    /\ req[w].step = "update"
    /\ LET updated == UpdateUser(users, req[w].user_id, req[w].update_data)
       IN  /\ users' = updated.store
           /\ resp' = [resp EXCEPT ![w] = [exc |-> updated.exc, message |-> updated.message]]
    /\ req' = [req EXCEPT ![w].step = "done"]
    /\ UNCHANGED <<svc, outbound>>

\* the worker has answered and takes the next request
Answered(w) ==
    /\ req[w].step = "done"
    /\ req' = [req EXCEPT ![w] = Idle]
    /\ resp' = [resp EXCEPT ![w] = NoOutcome]
    /\ UNCHANGED <<users, svc, outbound>>

NextConcurrent ==
    \/ \E w \in Workers, email \in ConcurrentEmails : BeginCreateUser(w, Base(email))
    \/ \E w \in Workers : FindExisting(w)
    \/ \E w \in Workers : SaveUser(w)
    \/ \E w \in Workers, user_id \in 1..MaxRows, email \in ConcurrentEmails :
          BeginUpdateUser(w, user_id, [email |-> email])
    \/ \E w \in Workers : CommitUpdate(w)
    \/ \E w \in Workers : Answered(w)

SpecConcurrent == InitConcurrent /\ [][NextConcurrent]_vars

(***************************************************************************)
(* OpenAIService._validate_documentation_format.  A text is the sequence   *)
(* of its lines (what split('\n') gives and join puts back), a line the    *)
(* sequence of its pieces; the pieces are cut where the prefixes the code  *)
(* tests for end, so that str.startswith is the prefix of sequences.       *)
(***************************************************************************)
StartsWith(line, prefix) ==
    Len(line) >= Len(prefix) /\ SubSeq(line, 1, Len(prefix)) = prefix

\* str.strip(): white space off both ends
RECURSIVE Strip(_)
Strip(line) ==
    IF line = <<>> THEN line
    ELSE IF Head(line) = " " THEN Strip(Tail(line))
    ELSE IF line[Len(line)] = " " THEN Strip(SubSeq(line, 1, Len(line) - 1))
    ELSE line

\* the backquote character, as a piece of a line
Backquote == "backquote"

\* the title line: "# Documentation: " and the file path between backquotes
Title(file_path) == <<"# ", "Documentation: ", Backquote, file_path, Backquote>>

\* required_sections
RequiredSections ==
    << <<"## 1. Overview">>, <<"## 2. Key Components">>, <<"## 3. Parameters/Arguments">>,
       <<"## 4. Return Values">>, <<"## 5. Dependencies">>, <<"## 6. Usage Examples">>,
       <<"## 7. Best Practices">> >>

Separator == <<"---">>
EmptyLine == <<>>

\* the title step: the text as it is when it starts with the title, else the
\* first line that starts with '# ' replaced, else the title and an empty
\* line put in front
FixTitle(lines, file_path) ==
    IF StartsWith(lines[1], Title(file_path)) THEN lines
    ELSE IF \E i \in 1..Len(lines) : StartsWith(lines[i], <<"# ">>)
    THEN [lines EXCEPT ![CHOOSE i \in 1..Len(lines) :
                            /\ StartsWith(lines[i], <<"# ">>)
                            /\ \A j \in 1..(i - 1) : ~StartsWith(lines[j], <<"# ">>)] =
                          Title(file_path)]
    ELSE <<Title(file_path), EmptyLine>> \o lines

\* whether the separator loop appends "", "---", "" after line i: the line
\* starts one of the first six sections, the first non-blank line among the
\* next four is not "---", and a later line starts a section
NeedsSeparator(lines, i) ==
    /\ \E k \in 1..6 : StartsWith(lines[i], RequiredSections[k])
    /\ LET ahead == {j \in (i + 1)..(i + 4) : j <= Len(lines) /\ Strip(lines[j]) # <<>>}
       IN  ahead = {} \/ Strip(lines[CHOOSE j \in ahead : \A h \in ahead : j <= h]) # Separator
    /\ \E e \in (i + 1)..Len(lines) : \E k \in 1..7 : StartsWith(lines[e], RequiredSections[k])

\* fixed_lines from line i on
RECURSIVE FixedLines(_, _)
FixedLines(lines, i) ==
    IF i > Len(lines) THEN <<>>
    ELSE <<lines[i]>>
         \o (IF NeedsSeparator(lines, i) THEN <<EmptyLine, Separator, EmptyLine>> ELSE <<>>)
         \o FixedLines(lines, i + 1)

\* the validation with every missing section put at the end
ValidateDocumentationFormatFilled(content, file_path) ==
    LET fixed == FixedLines(FixTitle(content, file_path), 1) IN
    fixed \o SelectSeq(RequiredSections,
                       LAMBDA h : \A i \in 1..Len(fixed) : ~StartsWith(fixed[i], h))

\* OpenAIService._validate_documentation_format
ValidateDocumentationFormat(content, file_path) ==
    FixedLines(FixTitle(content, file_path), 1)

(***************************************************************************)
(* OpenAIService.generate_documentation_from_base64 and the batch          *)
(* endpoint.  The text-generation backend is an input: for each decoded    *)
(* source it either completes with a text or raises with a message.        *)
(***************************************************************************)
\* base64: an encoding of a source, or a string that does not decode
B64(code) == <<"b64", code>>
NotBase64 == <<"%%%">>
B64Decode(base64) ==
    IF base64[1] = "b64"
    THEN [exc |-> "", text |-> base64[2]]
    ELSE [exc |-> "binascii.Error", text |-> "Incorrect padding"]

Completes(content) == [kind |-> "text", content |-> content]
Raises(text) == [kind |-> "error", text |-> text]

\* generate_documentation_from_base64 with backend b: the result dict, or
\* the exception whose text wraps the text of its cause
GenerateDocumentationFromBase64(file_name, base64, b) ==
    IF B64Decode(base64).exc # ""
    THEN [exc |-> "Exception",
          message |-> <<"Failed to generate documentation: ", B64Decode(base64).text>>]
    ELSE IF b[B64Decode(base64).text].kind = "error"
    THEN [exc |-> "Exception",
          message |-> <<"Failed to generate documentation: ",
                        "Failed to generate documentation with OpenAI: ",
                        b[B64Decode(base64).text].text>>]
    ELSE [exc |-> "",
          result |-> [file |-> file_name,
                      model_used |-> "gpt-3.5-turbo",
                      documentation |->
                          ValidateDocumentationFormat(b[B64Decode(base64).text].content,
                                                      file_name),
                      status |-> "success"]]

\* the size limit of DocumentationGenerationSchema.files
MaxFiles == 5

\* the error of one item of files under FileItemSchema
FileItemErrors(item) ==
    [f \in ({"file_name", "base64"} \ DOMAIN item) \cup (DOMAIN item \ {"file_name", "base64"}) |->
        IF f \in {"file_name", "base64"} THEN MissingData ELSE UnknownField]

\* ValidationError.messages of DocumentationGenerationSchema().load(json_data)
DocumentationSchemaErrors(json_data) ==
    LET unknown == DOMAIN json_data \ {"files"}
        items == IF "files" \in DOMAIN json_data
                 THEN {i \in 1..Len(json_data.files) : DOMAIN FileItemErrors(json_data.files[i]) # {}}
                 ELSE {}
        files == IF "files" \notin DOMAIN json_data THEN <<MissingData>>
                 ELSE IF items # {}
                 THEN <<[i \in items |-> FileItemErrors(json_data.files[i])]>>
                 ELSE IF Len(json_data.files) < 1 \/ Len(json_data.files) > MaxFiles
                 THEN <<InvalidValue>>
                 ELSE <<>>
    IN  [f \in unknown \cup (IF files # <<>> THEN {"files"} ELSE {}) |->
            IF f = "files" THEN files[1] ELSE UnknownField]

\* the for loop of generate_documentation from file i on: results, errors
\* and the file names passed to the service, in the order of the calls
RECURSIVE ProcessFiles(_, _, _, _)
ProcessFiles(files, i, b, done) ==
    IF i > Len(files) THEN done
    ELSE LET r == GenerateDocumentationFromBase64(files[i].file_name, files[i].base64, b) IN
         ProcessFiles(files, i + 1, b,
            [results |-> IF r.exc = "" THEN Append(done.results, r.result) ELSE done.results,
             errors |-> IF r.exc = "" THEN done.errors
                        ELSE Append(done.errors,
                                    [file_name |-> files[i].file_name, error |-> r.message]),
             calls |-> Append(done.calls, files[i].file_name),
             outbound |-> done.outbound \/ B64Decode(files[i].base64).exc = ""])

NoneProcessed == [results |-> <<>>, errors |-> <<>>, calls |-> <<>>, outbound |-> FALSE]

DocumentationCalled(done) ==
    [op |-> "generate_documentation_from_base64", calls |-> done.calls]

\* the text of the TypeError of error_response(..., data=response_data)
UnexpectedKeyword == "error_response() got an unexpected keyword argument 'data'"

\* generate_documentation from the loop's outcome on: the response when
\* some file succeeded; when none did, error_response is called with a data
\* keyword it does not take and the outer except answers
DocumentationResponded(current_user_id, files, done) ==
    IF done.results # <<>>
    THEN SuccessResponse(
            <<[total_files |-> Len(files),
               successful |-> Len(done.results),
               failed |-> Len(done.errors),
               results |-> done.results,
               errors |-> done.errors,
               generated_by |-> current_user_id]>>,
            IF done.errors = <<>>
            THEN MsgWith("Documentation generated successfully for files", <<Len(done.results)>>)
            ELSE MsgWith("Documentation generated for files, files failed",
                         <<Len(done.results), Len(done.errors)>>),
            200)
    ELSE ErrorResponse(MsgWith("Failed to process documentation request: ", UnexpectedKeyword),
                       500, <<>>)

\* OpenAIController.generate_documentation.  request_json is what
\* request.get_json() does: it raises with a text, or gives the JSON value
\* (<<>> for a falsy one)
GenerateDocumentationHandler(store, current_user_id, request_json, b) ==
    IF "raises" \in DOMAIN request_json
    THEN Outcome(store, NoCall,
                 ErrorResponse(MsgWith("Failed to process documentation request: ",
                                       request_json.raises), 500, <<>>), FALSE)
    ELSE IF DOMAIN request_json.json = {}
    THEN Outcome(store, NoCall, ErrorResponse(Msg("No JSON data provided"), 400, <<>>), FALSE)
    ELSE IF DOMAIN DocumentationSchemaErrors(request_json.json) # {}
    THEN Outcome(store, NoCall,
                 ErrorResponse(ValidationMessage(DocumentationSchemaErrors(request_json.json)),
                               400, <<>>), FALSE)
    ELSE LET done == ProcessFiles(request_json.json.files, 1, b, NoneProcessed) IN
         Outcome(store, DocumentationCalled(done),
                 DocumentationResponded(current_user_id, request_json.json.files, done),
                 done.outbound)

(***************************************************************************)
(* The specification of documentation generation: one request at a time,   *)
(* its context torn down when the response has been sent.                  *)
(***************************************************************************)
MaxLines == 4
MaxBatch == 6

\* lines a backend text is made of: titles (of the file, with a tail, of
\* another file), another top heading, prose, blank lines, separators and
\* section headings
Lines ==
    {Title("a.py"), Title("a.py") \o <<" - module">>, Title("b.py"), <<"# ", "Notes">>,
     <<"Here is the documentation:">>, EmptyLine, <<" ">>, Separator, <<" ", "---">>,
     RequiredSections[1], RequiredSections[2] \o <<" and more">>, RequiredSections[6],
     RequiredSections[7]}

\* a document of all the sections in keep, each with a line of prose and,
\* when separated, a separator before the next heading
RECURSIVE Sections(_, _, _)
Sections(k, keep, separated) ==
    IF k > 7 THEN <<>>
    ELSE (IF k \in keep
          THEN <<RequiredSections[k], <<"prose">>>>
               \o (IF separated /\ \E h \in keep : h > k
                   THEN <<EmptyLine, Separator, EmptyLine>> ELSE <<>>)
          ELSE <<>>)
         \o Sections(k + 1, keep, separated)

Documents ==
    {first \o Sections(1, keep, separated) :
        first \in {<<Title("a.py"), EmptyLine>>, <<<<"Here is the documentation:">>, Title("a.py")>>,
                   <<<<"# ", "Notes">>>>, <<EmptyLine>>},
        keep \in {1..7, {1, 2, 3, 4, 5, 6}, {2, 7}, {1, 3, 5, 7}, {}},
        separated \in BOOLEAN}

Contents == UNION {[1..n -> Lines] : n \in 1..MaxLines} \cup Documents

FileA == [file_name |-> "a.py", base64 |-> B64("x")]
FileB == [file_name |-> "b.py", base64 |-> B64("y")]
FileC == [file_name |-> "c.py", base64 |-> NotBase64]

Backends ==
    {[x |-> Completes(<<Title("a.py"), EmptyLine>> \o Sections(1, 1..7, TRUE)),
      y |-> Completes(<<<<"Here is the documentation:">>, Title("b.py")>>
                      \o Sections(1, {1, 7}, FALSE))],
     [x |-> Completes(<<<<"# ", "Notes">>>>), y |-> Raises("Rate limit reached")],
     [x |-> Raises("Rate limit reached"), y |-> Raises("OpenAI API key not configured")]}

JsonRequests ==
    {[json |-> [files |-> files]] :
        files \in UNION {[1..n -> {FileA, FileB, FileC}] : n \in 0..MaxBatch}}
    \cup {[json |-> <<>>], [json |-> [file |-> "a.py"]],
          [json |-> [files |-> <<FileA, [base64 |-> B64("x")]>>]],
          [json |-> [files |-> <<FileA>>, model |-> "gpt-4"]],
          [raises |-> "400 Bad Request: The browser (or proxy) sent a request that this server could not understand."],
          [raises |-> "415 Unsupported Media Type: Did not attempt to load JSON data because the request Content-Type was not 'application/json'."]}

InitDocs ==
    /\ users = CreateUser(<<>>, Base(EmailA)).store
    /\ req = NoRequest
    /\ svc = NoCall
    /\ resp = NoResponse
    /\ outbound = FALSE

\* a call of OpenAIService._validate_documentation_format
ValidateFormatCall ==
    /\ req = NoRequest
    /\ \E content \in Contents, file_path \in {"a.py"} :
        /\ req' = [handler |-> "validate_documentation_format_call",
                   content |-> content, file_path |-> file_path]
        /\ svc' = [op |-> "_validate_documentation_format",
                   result |-> ValidateDocumentationFormat(content, file_path)]
        /\ resp' = NoResponse
        /\ outbound' = FALSE
        /\ UNCHANGED users

\* POST /api/openai/generate-documentation
GenerateDocumentation ==
    /\ req = NoRequest
    /\ \E current_user_id \in {1}, request_json \in JsonRequests, b \in Backends :
       \E o \in {GenerateDocumentationHandler(users, current_user_id, request_json, b)} :
        /\ req' = [handler |-> "generate_documentation", caller |-> current_user_id,
                   request_json |-> request_json, backend |-> b]
        /\ users' = o.store
        /\ svc' = o.svc
        /\ resp' = From("generate_documentation", o.resp)
        /\ outbound' = o.outbound

\* the end of the request context
Teardown ==
    /\ req # NoRequest
    /\ req' = NoRequest
    /\ svc' = NoCall
    /\ resp' = NoResponse
    /\ outbound' = FALSE
    /\ UNCHANGED users

NextDocs ==
    \/ ValidateFormatCall
    \/ GenerateDocumentation
    \/ Teardown

SpecDocs == InitDocs /\ [][NextDocs]_vars

(***************************************************************************)
(* AuthController: the endpoints behind a token.  get_user_by_id raises    *)
(* ValueError for an id without a row, which both handlers catch with      *)
(* their one except clause.                                                *)
(***************************************************************************)
\* AuthController.refresh_token, the refresh token verified: identity is the
\* user id the token was issued for
RefreshTokenHandler(store, current_user_id) ==
    IF FindById(store, current_user_id) = 0
    THEN Outcome(store, Called("get_user_by_id", [exc |-> "ValueError",
                                                  message |-> Msg("User not found"), id |-> 0]),
                 ErrorResponse(Msg("Token refresh failed"), 500, <<>>), FALSE)
    ELSE Outcome(store, Called("get_user_by_id", Read(current_user_id)),
                 SuccessResponse(<<[access_token |-> AccessToken(current_user_id)]>>,
                                 Msg("Token refreshed"), 200), FALSE)

\* AuthController.get_current_user
GetCurrentUserHandler(store, current_user_id) ==
    IF FindById(store, current_user_id) = 0
    THEN Outcome(store, Called("get_user_by_id", [exc |-> "ValueError",
                                                  message |-> Msg("User not found"), id |-> 0]),
                 ErrorResponse(Msg("Failed to get user info"), 500, <<>>), FALSE)
    ELSE Outcome(store, Called("get_user_by_id", Read(current_user_id)),
                 SuccessResponse(<<[user |-> ToDict(store, current_user_id)]>>,
                                 Msg("Success"), 200), FALSE)

(***************************************************************************)
(* The specification of accounts: the table holds one admin, made by       *)
(* create_user; users register, log in, are read, updated, deactivated     *)
(* and reactivated, one request at a time.  A token is presented for a     *)
(* user only once a login has issued one (last_login).                     *)
(***************************************************************************)
AccountBodies ==
    {Base(EmailB), Merge(Base(EmailB), [role |-> "admin"]), Base(EmailAUpper),
     Merge(Base(EmailB), [confirmPassword |-> "secret1"])}

AccountLogins ==
    {[email |-> e, password |-> pw] : e \in {EmailA, EmailB}, pw \in {"secret1", "hunter22"}}

AccountUpdates ==
    {[is_active |-> FALSE], [is_active |-> TRUE], [password |-> "hunter22"],
     [role |-> "admin"]}

InitAccounts ==
    /\ users = CreateUser(<<>>, Merge(Base(EmailA), [role |-> "admin"])).store
    /\ req = NoRequest
    /\ svc = NoCall
    /\ resp = NoResponse
    /\ outbound = FALSE

\* a user holds tokens
HoldsToken(current_user_id) ==
    /\ current_user_id \in 1..Len(users)
    /\ users[current_user_id].last_login

AccountLogin ==
    /\ req = NoRequest
    /\ \E p \in AccountLogins : Login(p)

AccountRegister ==
    /\ req = NoRequest
    /\ \E p \in AccountBodies : Register(p)

AccountCreateUser ==
    /\ req = NoRequest
    /\ \E p \in AccountBodies : CreateUserRequest(p)

AccountGetUser ==
    /\ req = NoRequest
    /\ \E c \in CallerIds, id \in 1..MaxUserId : HoldsToken(c) /\ GetUser(c, id)

AccountUpdateUser ==
    /\ req = NoRequest
    /\ \E c \in CallerIds, id \in 1..MaxUserId, p \in AccountUpdates :
          HoldsToken(c) /\ UpdateUserRequest(c, id, p)

AccountDeleteUser ==
    /\ req = NoRequest
    /\ \E c \in CallerIds, id \in 1..MaxUserId : HoldsToken(c) /\ DeleteUserRequest(c, id)

\* POST /api/auth/refresh
RefreshTokenRequest ==
    /\ req = NoRequest
    /\ \E current_user_id \in CallerIds :
       \E o \in {RefreshTokenHandler(users, current_user_id)} :
        /\ HoldsToken(current_user_id)
        /\ req' = [handler |-> "refresh_token", caller |-> current_user_id]
        /\ users' = o.store
        /\ svc' = o.svc
        /\ resp' = From("refresh_token", o.resp)
        /\ outbound' = o.outbound

\* GET /api/auth/me
GetCurrentUserRequest ==
    /\ req = NoRequest
    /\ \E current_user_id \in CallerIds :
       \E o \in {GetCurrentUserHandler(users, current_user_id)} :
        /\ HoldsToken(current_user_id)
        /\ req' = [handler |-> "current_user", caller |-> current_user_id]
        /\ users' = o.store
        /\ svc' = o.svc
        /\ resp' = From("current_user", o.resp)
        /\ outbound' = o.outbound

NextAccounts ==
    \/ AccountLogin
    \/ AccountRegister
    \/ AccountCreateUser
    \/ AccountGetUser
    \/ AccountUpdateUser
    \/ AccountDeleteUser
    \/ RefreshTokenRequest
    \/ GetCurrentUserRequest
    \/ Teardown

SpecAccounts == InitAccounts /\ [][NextAccounts]_vars

(***************************************************************************)
(* Properties of the user store                                            *)
(***************************************************************************)
\* a dict whose declared fields all pass UserSchema (other keys are the
\* caller's: the service does not read them)
ValidUserData(d) == DOMAIN UserSchemaErrors(Only(d, UserSchemaFields)) = {}

DuplicateEmail == Msg("User with this email already exists")

EmailNobody == <<"o", "@", "x", ".", "i", "o">>

\* the last request was a login with the email of an active user and a
\* password that is not that user's
WrongPasswordLogin ==
    /\ req.handler = "login"
    /\ DOMAIN UserLoginSchemaErrors(req.body) = {}
    /\ \E i \in 1..Len(users) :
          /\ users[i].email = Lower(req.body.email)
          /\ users[i].is_active
          /\ ~CheckPassword(users[i], req.body.password)

\* C2: a login that fails on the password of an existing user gets the
\* message that the same login gets for an email of no user, from
\* authenticate_user and in the response.
C2_SameMessage ==
    WrongPasswordLogin =>
        /\ svc.message = AuthenticateUser(users, EmailNobody, req.body.password).message
        /\ resp.body.message =
              LoginHandler(users, [email |-> EmailNobody, password |-> req.body.password]).resp.body.message
        /\ resp.status =
              LoginHandler(users, [email |-> EmailNobody, password |-> req.body.password]).resp.status

\* the body carries confirmPassword and its value is not the password's
PasswordMismatch(p) ==
    "confirmPassword" \in DOMAIN p /\ Get(p, "password") # Get(p, "confirmPassword")

\* C3: a registration whose password differs from its confirmPassword is
\* answered 400 with the table unchanged, no service call and no outbound call.
C3_MismatchRejected ==
    [][(req'.handler = "register" /\ PasswordMismatch(req'.body)) =>
         /\ resp'.status = 400
         /\ resp'.body.success = FALSE
         /\ users' = users
         /\ svc'.op = "none"
         /\ outbound' = FALSE]_vars

\* a mismatching registration that would otherwise have created a user
C3_Witness ==
    /\ req.handler = "register"
    /\ PasswordMismatch(req.body)
    /\ DOMAIN UserSchemaErrors(Without(req.body, {"confirmPassword"})) = {}
    /\ \A i \in 1..Len(users) : users[i].email # Lower(req.body.email)
    /\ resp.status = 400
    /\ resp.body.message = Msg("Passwords do not match")

(***************************************************************************)
(* Properties of the GitHub service and controller                         *)
(***************************************************************************)
\* the least n with n * b >= a
Ceil(a, b) == CHOOSE n \in 0..a : n * b >= a /\ (n = 0 \/ (n - 1) * b < a)

\* the last operation called get_user_repositories and it succeeded
ListSucceeded ==
    /\ svc.op = "get_user_repositories"
    /\ "success" \in DOMAIN svc.result
    /\ svc.result.success

\* the page and page size that call was made with
ListedPage ==
    IF req.handler = "get_user_repositories_call" THEN req.page ELSE ArgInt(req.args, "page", 1)
ListedPerPage ==
    IF req.handler = "get_user_repositories_call"
    THEN req.per_page ELSE ArgInt(req.args, "per_page", 30)

ListForbidden ==
    /\ svc.op = "get_user_repositories"
    /\ req.upstream.kind = "response"
    /\ req.upstream.status = 403

\* C5: get_user_repositories answers an upstream 403 that carries
\* X-RateLimit-Remaining with RATE_LIMIT_EXCEEDED and a 403 without the
\* header with ACCESS_FORBIDDEN.
C5_ForbiddenByHeader ==
    ListForbidden =>
        /\ svc.result.success = FALSE
        /\ svc.result.error_code =
              IF RateLimitHeader \in req.upstream.headers
              THEN "RATE_LIMIT_EXCEEDED" ELSE "ACCESS_FORBIDDEN"

\* a 403 with the header, classified as the rate limit
C5_Witness ==
    /\ ListForbidden
    /\ RateLimitHeader \in req.upstream.headers
    /\ svc.result.error_code = "RATE_LIMIT_EXCEEDED"

\* the error codes that stand for NotFound
NotFoundCodes == {"USER_NOT_FOUND", "REPOSITORY_NOT_FOUND", "PATH_NOT_FOUND", "NOT_FOUND"}

\* result is a failure with one of the codes
FailsWith(result, codes) ==
    /\ "success" \in DOMAIN result
    /\ result.success = FALSE
    /\ result.error_code \in codes

Succeeds(result) == "success" \in DOMAIN result /\ result.success

\* the body of a 200 has the JSON type the endpoint documents
WellFormed(u) ==
    (u.kind = "response" /\ u.status = 200) => "object" \in DOMAIN u.body

\* the classification table, 403 apart: what the table gives for upstream u;
\* "any other status" is read as any other error status
TableGives(u, result) ==
    IF u.kind = "timeout" THEN FailsWith(result, {"REQUEST_TIMEOUT"})
    ELSE IF u.kind = "connection_error" THEN FailsWith(result, {"CONNECTION_ERROR"})
    ELSE IF u.kind # "response" THEN FailsWith(result, {"REQUEST_ERROR"})
    ELSE IF u.status = 200 THEN Succeeds(result)
    ELSE IF u.status = 404 THEN FailsWith(result, NotFoundCodes)
    ELSE IF u.status = 422 THEN FailsWith(result, {"INVALID_SEARCH_QUERY"})
    ELSE u.status >= 400 => FailsWith(result, {"REQUEST_ERROR"})

\* C6: get_user_repositories classifies the upstream outcome by the table:
\* 200 success, 404 NotFound, 422 InvalidQuery, timeout RequestTimeout,
\* connection failure ConnectionError, any other status RequestError.
C6_RepositoriesTable ==
    (svc.op = "get_user_repositories" /\ ~ListForbidden /\ WellFormed(req.upstream)) =>
        TableGives(req.upstream, svc.result)

\* C7: get_repository_details classifies the upstream outcome by the same
\* table: 200 success, 404 NotFound, 403 with the rate-limit header
\* RateLimitExceeded, 403 without it AccessForbidden, timeout RequestTimeout,
\* connection failure ConnectionError, anything else RequestError.
C7_ContentsTable ==
    svc.op = "get_repository_details" =>
        IF req.upstream.kind = "response" /\ req.upstream.status = 403
        THEN FailsWith(svc.result,
                       IF RateLimitHeader \in req.upstream.headers
                       THEN {"RATE_LIMIT_EXCEEDED"} ELSE {"ACCESS_FORBIDDEN"})
        ELSE IF req.upstream.kind = "response" /\ req.upstream.status = 422
        THEN FailsWith(svc.result, {"REQUEST_ERROR"})
        ELSE TableGives(req.upstream, svc.result)

\* the static table of error codes and HTTP statuses
StatusTable(error_code) ==
    CASE error_code = "USER_NOT_FOUND" -> 404
      [] error_code = "RATE_LIMIT_EXCEEDED" -> 429
      [] error_code = "ACCESS_FORBIDDEN" -> 403
      [] error_code = "REQUEST_TIMEOUT" -> 408
      [] error_code = "CONNECTION_ERROR" -> 503
      [] error_code = "REQUEST_ERROR" -> 502
      [] error_code = "INVALID_SEARCH_QUERY" -> 400
      [] error_code = "REPOSITORY_NOT_FOUND" -> 404
      [] error_code = "PATH_NOT_FOUND" -> 404
      [] error_code = "UNEXPECTED_ERROR" -> 500
      [] OTHER -> 500

SchemaMessages ==
    IF req.handler = "login" THEN UserLoginSchemaErrors(req.body)
    ELSE IF req.handler = "create_user" THEN UserSchemaErrors(req.body)
    ELSE IF req.handler = "register" /\ DOMAIN req.body # {} /\ ~PasswordMismatch(req.body)
    THEN UserSchemaErrors(Without(req.body, {"confirmPassword"}))
    ELSE <<>>

\* C9: a body that fails the schema of its endpoint is answered 400 and the
\* response carries the per-field messages.
C9_ValidationIs400 ==
    DOMAIN SchemaMessages # {} =>
        /\ resp.status = 400
        /\ resp.body.message.detail = SchemaMessages

\* the fields of a user payload that UserSchema objects to: a required field
\* that is absent, a value that is not allowed, a key that is not declared
Offending(p) ==
    ({"email", "password", "first_name", "last_name"} \ DOMAIN p)
    \cup {f \in DOMAIN p \cap {"role"} : p[f] \notin {"user", "admin", "moderator"}}
    \cup {f \in DOMAIN p \cap {"email"} : ~MatchEmail(p[f])}
    \cup {f \in DOMAIN p \cap {"password"} : Len(p[f]) < 6}
    \cup (DOMAIN p \ {"email", "password", "first_name", "last_name", "role", "is_active"})

\* the user payload the last request had validated, <<>> when it had none
ValidatedUserData ==
    IF req.handler = "create_user" THEN <<req.body>>
    ELSE IF req.handler = "register" /\ DOMAIN req.body # {} /\ ~PasswordMismatch(req.body)
    THEN <<Without(req.body, {"confirmPassword"})>>
    ELSE <<>>

\* C10: the messages of a rejected user payload have one entry for each
\* offending field and no other, so two missing required fields and an
\* invalid role give exactly three entries.
C10_AllFieldErrors ==
    \A p \in {ValidatedUserData[i] : i \in DOMAIN ValidatedUserData} :
        Offending(p) # {} =>
            /\ resp.status = 400
            /\ DOMAIN resp.body.message.detail = Offending(p)
            /\ Cardinality(DOMAIN resp.body.message.detail) = Cardinality(Offending(p))

\* two required fields missing and a role outside the enum: three entries
C10_Witness ==
    /\ req.handler = "create_user"
    /\ Cardinality({"email", "password", "first_name", "last_name"} \ DOMAIN req.body) = 2
    /\ "role" \in DOMAIN req.body
    /\ req.body.role = "bogus"
    /\ Cardinality(Offending(req.body)) = 3
    /\ Cardinality(DOMAIN resp.body.message.detail) = 3

(***************************************************************************)
(* Properties of the query parameters of the repository list               *)
(***************************************************************************)
\* the bounds GitHubRepositoryQuerySchema states for an integer field
InRange(f, n) == IF f = "page" THEN n >= 1 ELSE n >= 1 /\ n <= 100

\* the last request was a repository list by a caller that the handler
\* takes as far as its query parameters
RepositoriesAsked ==
    /\ req.handler = "get_user_repositories"
    /\ FindById(users, req.uid) # 0
    /\ req.gh # <<>>

SelfAllowed == {"get_user", "update_user"}

\* the request r, made on table store, comes from a caller who is not an
\* admin and, where the endpoint allows the owner, is not the target
Unauthorized(store, r) ==
    /\ r.handler \in {"get_users", "get_user", "update_user", "delete_user",
                      "search_users", "promote_user"}
    /\ store[r.caller].role # "admin"
    /\ r.handler \in SelfAllowed => r.caller # r.user_id

\* C12: a request to get_user, update_user, delete_user, promote_user,
\* get_users or search_users by a caller who is neither an admin nor, where
\* the endpoint allows it, the target user is answered 403, leaves the table
\* unchanged and invokes no service operation.
C12_Forbidden ==
    [][Unauthorized(users, req') =>
         /\ resp'.status = 403
         /\ users' = users
         /\ svc'.op = "none"]_vars

\* a user asks to change the admin's password and is refused
C12_Witness ==
    /\ req.handler = "update_user"
    /\ req.caller = 2
    /\ req.user_id = 1
    /\ users[2].role = "user"
    /\ "password" \in DOMAIN req.body
    /\ DOMAIN UserUpdateSchemaErrors(req.body) = {}
    /\ resp.status = 403

(***************************************************************************)
(* Properties of documentation generation                                  *)
(***************************************************************************)
\* the texts documentation generation returned in the last step, each with
\* its file: the result of a direct validation, the documents of a batch
Returned ==
    IF req.handler = "validate_documentation_format_call"
    THEN {<<req.file_path, svc.result>>}
    ELSE IF req.handler = "generate_documentation" /\ resp.status = 200
    THEN {<<resp.body.data.results[i].file, resp.body.data.results[i].documentation>> :
             i \in 1..Len(resp.body.data.results)}
    ELSE {}

\* C13: the first line of a returned document for file F is exactly the
\* title line of F, whatever text the backend gave.
C13_TitleFirst ==
    \A d \in Returned : d[2][1] = Title(d[1])

\* the section a line starts, 0 when it starts none
SectionOf(line) ==
    IF \E k \in 1..7 : StartsWith(line, RequiredSections[k])
    THEN CHOOSE k \in 1..7 : StartsWith(line, RequiredSections[k])
    ELSE 0

\* the required headings of a text, in the order of their lines
Headings(lines) ==
    SelectSeq([i \in 1..Len(lines) |-> SectionOf(lines[i])], LAMBDA k : k # 0)

\* C14: the required headings of the text _validate_documentation_format
\* returns are those of the text it was given, in the same order: none
\* added, none removed, none moved.
C14_HeadingsKept ==
    req.handler = "validate_documentation_format_call" =>
        Headings(svc.result) = Headings(req.content)

\* a text with its sections 2 and 7 only, rewritten by the validation (a
\* title put in, a separator added) with those two headings and no other
C14_Witness ==
    /\ req.handler = "validate_documentation_format_call"
    /\ Headings(req.content) = <<2, 7>>
    /\ svc.result # req.content
    /\ Len(svc.result) > Len(req.content) + 2
    /\ Headings(svc.result) = <<2, 7>>

\* the files of the last documentation request, <<>> when its body has none
BatchFiles ==
    IF req.handler = "generate_documentation"
       /\ "json" \in DOMAIN req.request_json
       /\ DOMAIN req.request_json.json = {"files"}
       /\ \A i \in 1..Len(req.request_json.json.files) :
             DOMAIN FileItemErrors(req.request_json.json.files[i]) = {}
    THEN <<req.request_json.json.files>>
    ELSE <<>>

\* C15: a batch of 1 to 5 files has every file passed to the service once,
\* in list order, and its response counts add up, with every file among the
\* results or among the errors and not both; a batch of no file or of more
\* than 5 is answered 400 with no call made.
C15_Batch ==
    \A files \in {BatchFiles[i] : i \in DOMAIN BatchFiles} :
        IF Len(files) >= 1 /\ Len(files) <= 5
        THEN /\ svc.op = "generate_documentation_from_base64"
             /\ svc.calls = [i \in 1..Len(files) |-> files[i].file_name]
             /\ "data" \in DOMAIN resp.body
             /\ resp.body.data.total_files = Len(files)
             /\ resp.body.data.successful + resp.body.data.failed = Len(files)
             /\ resp.body.data.successful = Len(resp.body.data.results)
             /\ resp.body.data.failed = Len(resp.body.data.errors)
             /\ \A i \in 1..Len(files) :
                   (\E j \in 1..Len(resp.body.data.results) :
                       resp.body.data.results[j].file = files[i].file_name)
                   # (\E j \in 1..Len(resp.body.data.errors) :
                       resp.body.data.errors[j].file_name = files[i].file_name)
        ELSE /\ resp.status = 400
             /\ svc.op = "none"
             /\ ~outbound

(***************************************************************************)
(* Properties of the response envelope                                     *)
(***************************************************************************)
\* C16: a response body has a boolean success and a message, and beyond
\* them only data, when success is true, or errors, when it is false.
C16_Envelope ==
    resp.handler # "none" =>
        /\ {"success", "message"} \subseteq DOMAIN resp.body
        /\ resp.body.success \in BOOLEAN
        /\ DOMAIN resp.body.message = {"text", "detail"}
        /\ DOMAIN resp.body \subseteq
              {"success", "message"} \cup (IF resp.body.success THEN {"data"} ELSE {"errors"})

\* the texts of the exceptions request.get_json raises in the requests made
ExceptionTexts == {r.raises : r \in {q \in JsonRequests : "raises" \in DOMAIN q}}

\* C17: a documentation request in which an unexpected exception was raised
\* is answered 500, and with the body the same request gets when only the
\* text of the exception differs.
C17_GenericFailure ==
    (req # NoRequest /\ req.handler = "generate_documentation"
        /\ "raises" \in DOMAIN req.request_json) =>
        /\ resp.status = 500
        /\ \A text \in ExceptionTexts :
              resp.body = GenerateDocumentationHandler(users, req.caller, [raises |-> text],
                                                       req.backend).resp.body

(***************************************************************************)
(* Properties of the password                                              *)
(***************************************************************************)
\* the request r carries the password row had before it
CurrentPasswordSupplied(r, row) ==
    /\ "body" \in DOMAIN r
    /\ "current_password" \in DOMAIN r.body
    /\ CheckPassword(row, r.body.current_password)

\* C18: the password hash of a user changes only in a request that supplied
\* the password the user had before.
C18_PasswordChange ==
    [][\A i \in 1..Len(users) :
          (i <= Len(users') /\ users'[i].password_hash # users[i].password_hash)
              => CurrentPasswordSupplied(req', users[i])]_vars

(***************************************************************************)
(* Properties of concurrent requests                                       *)
(***************************************************************************)
\* C19: whatever the interleaving of the steps of concurrent create_user
\* and update_user requests, no two rows have the same lower-cased email.
C19_UniqueEmail ==
    \A i, j \in 1..Len(users) : Lower(users[i].email) = Lower(users[j].email) => i = j

\* a worker whose find_by_email found no row had its INSERT rejected by the
\* UNIQUE constraint, and a worker's UPDATE of the email was rejected too
C19_Witness ==
    /\ \E w \in Workers :
          /\ req[w].handler = "create_user" /\ req[w].step = "done"
          /\ resp[w].exc = "IntegrityError"
    /\ \E w \in Workers :
          /\ req[w].handler = "update_user" /\ req[w].step = "done"
          /\ resp[w].exc = "IntegrityError"

(***************************************************************************)
(* Properties of registration                                              *)
(***************************************************************************)
\* a registration body with a github_username whose other fields pass the
\* schema and whose email belongs to a row of store
BothSupplied(store, p) ==
    /\ {"email", "github_username"} \subseteq DOMAIN p
    /\ ~PasswordMismatch(p)
    /\ DOMAIN UserSchemaErrors(Without(p, {"confirmPassword", "github_username"})) = {}
    /\ FindByEmail(store, p.email) # 0

\* C20: a registration that carries a github_username and the email of an
\* existing user is rejected with the duplicate-email failure, the email
\* being looked up first, and leaves the table unchanged.
C20_EmailFirst ==
    [][(req'.handler = "register" /\ BothSupplied(users, req'.body)) =>
          /\ users' = users
          /\ resp'.status = 400
          /\ resp'.body.message = Msg("User with this email already exists")]_vars

(***************************************************************************)
(* Properties of POST /api/users                                           *)
(***************************************************************************)
\* a body of name, email, github_username and a password of 6 characters
\* or more, its email well-formed and the email of no row of store
NamedBody(store, p) ==
    /\ DOMAIN p = {"name", "email", "github_username", "password"}
    /\ MatchEmail(p.email)
    /\ Len(p.password) >= 6
    /\ FindByEmail(store, p.email) = 0

\* C21: POST /api/users with name, email, github_username and a password of
\* at least 6 characters, for an email not yet registered, creates the user
\* and returns 201 with success true and the submitted email and
\* github_username in data.
C21_NamedCreate ==
    [][(req'.handler = "create_user" /\ NamedBody(users, req'.body)) =>
          /\ Len(users') = Len(users) + 1
          /\ resp'.status = 201
          /\ resp'.body.success
          /\ resp'.body.data.email = Lower(req'.body.email)
          /\ resp'.body.data.github_username = req'.body.github_username]_vars

(***************************************************************************)
(* Properties of the operations on an existing user                        *)
(***************************************************************************)
\* the last request was a delete_user that the service carried out
Deleted == req.handler = "delete_user" /\ svc.op = "delete_user" /\ svc.exc = ""

\* C22: after delete_user(u) succeeds, u's row still exists with is_active
\* false and its other columns as before, and every other row is unchanged.
C22_SoftDelete ==
    [][Deleted' =>
          /\ Len(users') = Len(users)
          /\ req'.user_id \in 1..Len(users)
          /\ users' = [users EXCEPT ![req'.user_id].is_active = FALSE]]_vars

\* an active user was deleted by an admin
C22_Witness ==
    /\ Deleted
    /\ resp.status = 200
    /\ ~users[req.user_id].is_active
    /\ \E i \in 1..Len(users) : i # req.user_id /\ users[i].is_active

\* C23: get_user leaves the table unchanged, and a second call with the same
\* caller and id, made right after it, returns the same status and payload.
C23_ReadOnly ==
    [][req'.handler = "get_user" =>
          /\ users' = users
          /\ resp' = From("get_user",
                          GetUserHandler(users', req'.caller, req'.user_id).resp)]_vars

\* a user was read
C23_Witness ==
    /\ req.handler = "get_user"
    /\ svc.op = "get_user_by_id"
    /\ resp.status = 200
    /\ resp.body.data.id = req.user_id

(***************************************************************************)
(* Properties of the repository-contents endpoint                          *)
(***************************************************************************)
\* the upstream answers of status 200
ContentsFound == {u \in ContentsUpstreams : u.kind = "response" /\ u.status = 200}

\* the last request asked for the contents of a named repository, by a user
\* whose row exists and has a GitHub name
ContentsAsked ==
    /\ req.handler = "get_repository_details"
    /\ FindById(users, req.uid) # 0
    /\ req.gh # <<>>
    /\ ~IsBlank(req.repo_name)

UserEndpoints == {"login", "register", "create_user", "get_user", "update_user", "current_user"}

SecretKeys == {"password", "password_hash"}

\* the dicts of the payload of the last response: the payload itself and
\* the user it carries
PayloadDicts ==
    IF "data" \notin DOMAIN resp.body THEN {}
    ELSE {resp.body.data}
         \cup (IF "user" \in DOMAIN resp.body.data THEN {resp.body.data.user} ELSE {})

\* C25: no payload of login, registration, create user, get user, update
\* user or current-user has a password or a password hash in it.
C25_NoPassword ==
    resp.handler \in UserEndpoints =>
        \A d \in PayloadDicts : DOMAIN d \cap SecretKeys = {}

\* a login answered with the user it authenticated
C25_Witness ==
    /\ resp.handler = "login"
    /\ resp.status = 200
    /\ resp.body.data.user.email = users[resp.body.data.user.id].email
    /\ users[resp.body.data.user.id].password_hash = PasswordHash(req.body.password)

\* row i of the table after a step is an admin and was not one before
BecameAdmin(before, after, i) ==
    /\ after[i].role = "admin"
    /\ (i > Len(before) \/ before[i].role # "admin")

\* the request r was made with the token of a user who is an admin in store
ByAdmin(store, r) ==
    /\ "caller" \in DOMAIN r
    /\ r.caller \in 1..Len(store)
    /\ IsAdmin(store, r.caller)

\* C26: a row gets the role admin, at its creation or later, only in a
\* request made with the token of an admin.
C26_AdminByAdmin ==
    [][(\E i \in 1..Len(users') : BecameAdmin(users, users', i)) => ByAdmin(users, req')]_vars

\* the user the access token in response r was issued for, 0 when r has no
\* access token
IssuedFor(r) ==
    IF "data" \in DOMAIN r.body /\ "access_token" \in DOMAIN r.body.data
    THEN r.body.data.access_token[2]
    ELSE 0

\* C27: while a user is deactivated no request, login or token refresh, is
\* answered with a new access token for that user.
C27_NoTokenWhileInactive ==
    [][\A i \in 1..Len(users) :
          (~users[i].is_active /\ req = NoRequest) => IssuedFor(resp') # i]_vars

\* C28: no request made with the token of an admin moves that admin's own
\* row from active to inactive.
C28_AdminStaysActive ==
    [][\A a \in 1..Len(users) :
          (ByAdmin(users, req') /\ req'.caller = a /\ users[a].is_active) =>
              users'[a].is_active]_vars

(***************************************************************************)
(* Properties of a batch that fails                                        *)
(***************************************************************************)
\* the valid batches of the last request in which no file succeeded
FailedBatches ==
    {files \in {BatchFiles[i] : i \in DOMAIN BatchFiles} :
        /\ Len(files) >= 1 /\ Len(files) <= MaxFiles
        /\ ProcessFiles(files, 1, req.backend, NoneProcessed).results = <<>>}

\* C29: when every file of a valid batch fails the response is 500 with
\* success false, the message 'Failed to generate documentation for all
\* files', and the summary of the batch: total_files, the failed count and
\* the list of errors.
C29_AllFailed ==
    \A files \in FailedBatches :
        /\ resp.status = 500
        /\ ~resp.body.success
        /\ resp.body.message = Msg("Failed to generate documentation for all files")
        /\ "data" \in DOMAIN resp.body
        /\ resp.body.data.total_files = Len(files)
        /\ resp.body.data.failed = Len(files)
        /\ Len(resp.body.data.errors) = Len(files)

(***************************************************************************)
(* Properties of a conforming document                                     *)
(***************************************************************************)
\* the lines of text where a required section starts
HeadingLines(lines) == {i \in 1..Len(lines) : SectionOf(lines[i]) # 0}

\* line i starts a section that has content and then, as its last non-blank
\* line before the next heading, a separator
Separated(lines, i) ==
    LET next == CHOOSE e \in HeadingLines(lines) :
                    e > i /\ \A h \in HeadingLines(lines) : h > i => e <= h
        inside == {j \in (i + 1)..(next - 1) : Strip(lines[j]) # <<>>}
    IN  /\ \E j \in inside : Strip(lines[j]) # Separator
        /\ \E j \in inside : Strip(lines[j]) = Separator /\ \A h \in inside : h <= j

\* text starts with the title of file_path and has the seven sections in
\* order, each but the last closed by a separator
Conforming(lines, file_path) ==
    /\ lines[1] = Title(file_path)
    /\ Headings(lines) = <<1, 2, 3, 4, 5, 6, 7>>
    /\ \A i \in HeadingLines(lines) : SectionOf(lines[i]) < 7 => Separated(lines, i)

\* C30: the validation returns a conforming text as it was given, and applied
\* to its own result it returns that result.
C30_ConformingKept ==
    req.handler = "validate_documentation_format_call" =>
        /\ Conforming(req.content, req.file_path) => svc.result = req.content
        /\ ValidateDocumentationFormat(svc.result, req.file_path) = svc.result
====
